---- MODULE Spec2Model ----
(***************************************************************************)
(* The composite search subsystem of the file explorer backend:            *)
(* searchable items, search criteria, the search engine, the search        *)
(* service (services/search.ts) and the search controller                  *)
(* (controllers/search.ts).                                                *)
(*                                                                         *)
(* A JavaScript string is a sequence of one-character strings, so that     *)
(* toLowerCase and includes are computed and not assumed.  null and        *)
(* undefined are None (the empty sequence); a present value v is Some(v).  *)
(***************************************************************************)
EXTENDS Integers, Sequences, FiniteSets, TLC

VARIABLES
    folders,          \* what dataProvider.getFolders() resolves to
    files,            \* what dataProvider.getFiles() resolves to
    pc,               \* "idle" | "awaiting" (Promise.all pending) | "done"
    call,             \* the call in progress: entry point and arguments
    slots,            \* Promise.all's positional values, <<folders, files>>
    pending,          \* the provider fetches in flight
    rejection,        \* the first rejection Promise.all has seen
    settled,          \* the order in which the fetches settled
    getFoldersCalls,  \* invocations of dataProvider.getFolders in this call
    getFilesCalls,    \* invocations of dataProvider.getFiles in this call
    advancedCalls,    \* invocations of SearchService.advancedSearch in this call
    result,           \* what the call returned, threw or responded
    unit,             \* a direct call of a criteria, the engine or the builder
    engine,           \* the SearchEngine the service was constructed with
    inflight,         \* the calls of one service that are in progress together
    table,            \* the rows of the folders table, in the order findAll returns
    fcall,            \* the FolderService or FileService call in progress
    fileTable,        \* the rows of the files table
    explorer          \* the state of the frontend's useFileExplorer

\* what the search service, taken one call at a time, never touches
restVars == <<fileTable, explorer>>

otherVars == <<engine, inflight, table, fcall, restVars>>

vars == <<folders, files, pc, call, slots, pending, rejection, settled,
          getFoldersCalls, getFilesCalls, advancedCalls, result, unit,
          otherVars>>

svcVars == <<folders, files, pc, call, slots, pending, rejection, settled,
             getFoldersCalls, getFilesCalls, advancedCalls, result>>

----------------------------------------------------------------------------
(* Bounds *)

\* longest search term / name / path drawn for a single criteria evaluation
MaxLen == 2
\* most nodes in a criteria tree or in a submitted criteria list
MaxNodes == 3
\* longest item list handed to the engine directly
MaxItems == 2

----------------------------------------------------------------------------
(* Values *)

None == <<>>
Some(v) == <<v>>

Upper ==
    <<"A","B","C","D","E","F","G","H","I","J","K","L","M","N","O","P","Q","R","S","T","U","V","W","X","Y","Z">>
Lower ==
    <<"a","b","c","d","e","f","g","h","i","j","k","l","m","n","o","p","q","r","s","t","u","v","w","x","y","z">>

\* String.prototype.toLowerCase, one character
toLowerChar(c) ==
    IF \E i \in 1..Len(Upper) : Upper[i] = c
    THEN Lower[CHOOSE i \in 1..Len(Upper) : Upper[i] = c]
    ELSE c

\* String.prototype.toLowerCase
toLowerCase(s) ==
    [i \in 1..Len(s) |-> toLowerChar(s[i])]

\* String.prototype.includes
includes(s, t) ==
    \E i \in 0..(Len(s) - Len(t)) : SubSeq(s, i + 1, i + Len(t)) = t

Digits ==
    <<"0","1","2","3","4","5","6","7","8","9">>

RECURSIVE toString(_)
\* Number.prototype.toString of a non-negative integer
toString(n) ==
    IF n < 10 THEN <<Digits[n + 1]>>
    ELSE toString(n \div 10) \o <<Digits[(n % 10) + 1]>>

FOLDER == <<"f","o","l","d","e","r">>
FILE == <<"f","i","l","e">>

----------------------------------------------------------------------------
(* Searchable items *)

SearchableFolder(folder) ==
    [class |-> "SearchableFolder", record |-> folder]

SearchableFile(file) ==
    [class |-> "SearchableFile", record |-> file]

getId(item) == toString(item.record.id)

getName(item) == item.record.name

getPath(item) == item.record.path

getType(item) ==
    IF item.class = "SearchableFolder" THEN FOLDER ELSE FILE

\* constructor(private folder: Folder) / constructor(private file: File):
\* a parameter property is an own property of the instance at run time;
\* `private` restricts the compiler, not the object
OwnProperty(item) ==
    IF item.class = "SearchableFolder" THEN "folder" ELSE "file"

\* (item as any)[name], undefined for a name the instance does not have
getProperty(item, name) ==
    IF name = OwnProperty(item) THEN Some(item.record) ELSE None

\* x?.toString() || null
OptToString(x) ==
    IF x = None THEN None ELSE Some(toString(x[1]))

\* x || undefined, for a number or null
OrUndefined(x) ==
    IF x = None \/ x = Some(0) THEN None ELSE x

SearchableFolder_toSearchResult(item) ==
    [id |-> getId(item),
     name |-> getName(item),
     type |-> getType(item),
     path |-> getPath(item),
     parentId |-> OptToString(item.record.parentId),
     modifiedAt |-> item.record.updatedAt,
     createdAt |-> item.record.createdAt]

SearchableFile_toSearchResult(item) ==
    [id |-> getId(item),
     name |-> getName(item),
     type |-> getType(item),
     path |-> getPath(item),
     parentId |-> OptToString(Some(item.record.folderId)),
     size |-> OrUndefined(item.record.size),
     modifiedAt |-> item.record.updatedAt,
     createdAt |-> item.record.createdAt]

\* the instanceof dispatch of the result mapping
toSearchResult(item) ==
    IF item.class = "SearchableFolder"
    THEN SearchableFolder_toSearchResult(item)
    ELSE SearchableFile_toSearchResult(item)

----------------------------------------------------------------------------
(* Search criteria *)

NameSearchCriteria(query) == [class |-> "Name", query |-> query]

PathSearchCriteria(query) == [class |-> "Path", query |-> query]

TypeSearchCriteria(type) == [class |-> "Type", type |-> type]

AndSearchCriteria(criteria) == [class |-> "And", criteria |-> criteria]

OrSearchCriteria(criteria) == [class |-> "Or", criteria |-> criteria]

\* a comparison that lowers the name and not the query
NameSearchCriteria_execute_caseSensitive(c, item) ==
    includes(toLowerCase(getName(item)), c.query)

NameSearchCriteria_execute(c, item) ==
    includes(toLowerCase(getName(item)), toLowerCase(c.query))

PathSearchCriteria_execute(c, item) ==
    includes(toLowerCase(getPath(item)), toLowerCase(c.query))

TypeSearchCriteria_execute(c, item) ==
    getType(item) = c.type

RECURSIVE execute(_, _)
RECURSIVE every(_, _)
RECURSIVE some(_, _)

\* Array.prototype.every over the children, left to right, stopping at the
\* first false
every(cs, item) ==
    IF cs = <<>> THEN TRUE
    ELSE IF ~execute(Head(cs), item) THEN FALSE
    ELSE every(Tail(cs), item)

\* Array.prototype.some over the children, left to right, stopping at the
\* first true
some(cs, item) ==
    IF cs = <<>> THEN FALSE
    ELSE IF execute(Head(cs), item) THEN TRUE
    ELSE some(Tail(cs), item)

\* a conjunction evaluated with some in place of every
AndSearchCriteria_execute_some(c, item) ==
    some(c.criteria, item)

AndSearchCriteria_execute(c, item) ==
    every(c.criteria, item)

OrSearchCriteria_execute(c, item) ==
    some(c.criteria, item)

\* ISearchCriteria.execute, by the class of the criteria
execute(c, item) ==
    CASE c.class = "Name" -> NameSearchCriteria_execute(c, item)
      [] c.class = "Path" -> PathSearchCriteria_execute(c, item)
      [] c.class = "Type" -> TypeSearchCriteria_execute(c, item)
      [] c.class = "And" -> AndSearchCriteria_execute(c, item)
      [] c.class = "Or" -> OrSearchCriteria_execute(c, item)

----------------------------------------------------------------------------
(* Search engine *)

RECURSIVE filter(_, _)
\* Array.prototype.filter with the callback item => criteria.execute(item)
filter(items, criteria) ==
    IF items = <<>> THEN <<>>
    ELSE IF execute(criteria, Head(items))
         THEN <<Head(items)>> \o filter(Tail(items), criteria)
         ELSE filter(Tail(items), criteria)

\* an engine that keeps the first match only
SearchEngine_search_limited(items, criteria) ==
    LET matches == filter(items, criteria)
    IN  IF matches = <<>> THEN <<>> ELSE <<Head(matches)>>

SearchEngine_search(items, criteria) ==
    filter(items, criteria)

\* results.slice(0, 1)
slice01(results) ==
    IF Len(results) <= 1 THEN results ELSE <<results[1]>>

\* the subclass that returns super.search(items, criteria).slice(0, 1)
LimitedSearchEngine_search(items, criteria) ==
    slice01(SearchEngine_search(items, criteria))

Engines == {"SearchEngine", "LimitedSearchEngine"}

\* this.searchEngine.search(items, criteria)
searchEngine_search(items, criteria) ==
    IF engine = "LimitedSearchEngine"
    THEN LimitedSearchEngine_search(items, criteria)
    ELSE SearchEngine_search(items, criteria)

----------------------------------------------------------------------------
(* Outcomes of a call: a returned value or a thrown error *)

Return(v) == [threw |-> FALSE, value |-> v]

Throw(e) == [threw |-> TRUE, error |-> e]

\* new Error("Unknown criteria type: " + data.type).message
UnknownCriteriaType(tag) == <<"Unknown criteria type: ", tag>>

\* the TypeError of data.children.map when data.children is undefined
ChildrenTypeError == <<"TypeError: undefined is not an object", "data.children.map">>

----------------------------------------------------------------------------
(* Search controller: criteria building *)

\* A submitted criteria node, as the body schema admits it: a type tag, an
\* optional value and an optional list of children.
Node(tag, value, children) ==
    [type |-> tag, value |-> value, children |-> children]

RECURSIVE buildCriteria(_)
RECURSIVE mapBuildCriteria(_)

RECURSIVE mapBuildCriteria_skipFailed(_)
\* a map that drops the children whose build throws
mapBuildCriteria_skipFailed(list) ==
    IF list = <<>> THEN Return(<<>>)
    ELSE LET h == buildCriteria(Head(list))
             t == mapBuildCriteria_skipFailed(Tail(list))
         IN  IF h.threw THEN t ELSE Return(<<h.value>> \o t.value)

\* children.map(child => buildCriteria(child)): the first child whose build
\* throws ends the map with that error
mapBuildCriteria(list) ==
    IF list = <<>> THEN Return(<<>>)
    ELSE LET h == buildCriteria(Head(list))
         IN  IF h.threw THEN h
             ELSE LET t == mapBuildCriteria(Tail(list))
                  IN  IF t.threw THEN t
                      ELSE Return(<<h.value>> \o t.value)

\* data.children.map(child => buildCriteria(child)); data.children may be
\* undefined, and then the property access throws
buildChildren(data) ==
    IF data.children = None THEN Throw(ChildrenTypeError)
    ELSE mapBuildCriteria(data.children[1])

\* a switch whose path case constructs a name criteria
buildCriteria_pathAsName(data) ==
    CASE data.type = "name" -> Return(NameSearchCriteria(data.value[1]))
      [] data.type = "path" -> Return(NameSearchCriteria(data.value[1]))
      [] data.type = "type" -> Return(TypeSearchCriteria(data.value[1]))
      [] data.type = "and" ->
            LET cs == buildChildren(data)
            IN  IF cs.threw THEN cs ELSE Return(AndSearchCriteria(cs.value))
      [] data.type = "or" ->
            LET cs == buildChildren(data)
            IN  IF cs.threw THEN cs ELSE Return(OrSearchCriteria(cs.value))
      [] OTHER -> Throw(UnknownCriteriaType(data.type))

buildCriteria(data) ==
    CASE data.type = "name" -> Return(NameSearchCriteria(data.value[1]))
      [] data.type = "path" -> Return(PathSearchCriteria(data.value[1]))
      [] data.type = "type" -> Return(TypeSearchCriteria(data.value[1]))
      [] data.type = "and" ->
            LET cs == buildChildren(data)
            IN  IF cs.threw THEN cs ELSE Return(AndSearchCriteria(cs.value))
      [] data.type = "or" ->
            LET cs == buildChildren(data)
            IN  IF cs.threw THEN cs ELSE Return(OrSearchCriteria(cs.value))
      [] OTHER -> Throw(UnknownCriteriaType(data.type))

\* a builder that combines several criteria with OR
buildSearchCriteria_orByDefault(criteriaData) ==
    IF Len(criteriaData) = 1
    THEN buildCriteria(criteriaData[1])
    ELSE LET built == mapBuildCriteria(criteriaData)
         IN  IF built.threw THEN built
             ELSE Return(OrSearchCriteria(built.value))

buildSearchCriteria(criteriaData) ==
    IF Len(criteriaData) = 1
    THEN buildCriteria(criteriaData[1])
    ELSE LET built == mapBuildCriteria(criteriaData)
         IN  IF built.threw THEN built
             ELSE Return(AndSearchCriteria(built.value))

----------------------------------------------------------------------------
(* Search service *)

\* the destructuring defaults of the options argument
Default(opt, d) ==
    IF opt = None THEN d ELSE opt[1]

\* [...folders.map(f => new SearchableFolder(f)), ...files.map(f => new SearchableFile(f))]
searchableItems(fs, gs) ==
    [i \in 1..Len(fs) |-> SearchableFolder(fs[i])]
        \o [i \in 1..Len(gs) |-> SearchableFile(gs[i])]

\* a query criteria that looks into the path whatever the option says
searchCriteria_alwaysInPath(query, searchInPath) ==
    OrSearchCriteria(<<NameSearchCriteria(query), PathSearchCriteria(query)>>)

\* the criteria search() builds from the query
searchCriteria(query, searchInPath) ==
    OrSearchCriteria(
        <<NameSearchCriteria(query)>>
            \o (IF searchInPath THEN <<PathSearchCriteria(query)>> ELSE <<>>))

\* results.map(item => item.toSearchResult())
mapToSearchResult(results) ==
    [i \in 1..Len(results) |-> toSearchResult(results[i])]

\* a result that echoes the query in lower case
SearchResult_lowersQuery(items, query) ==
    [items |-> items, totalCount |-> Len(items), query |-> toLowerCase(query)]

SearchResult(items, query) ==
    [items |-> items, totalCount |-> Len(items), query |-> query]

ADVANCED_SEARCH == <<"A","d","v","a","n","c","e","d"," ","S","e","a","r","c","h">>

\* a search that counts the candidates it looked at
search_resume_countsCandidates(fs, gs, query, options) ==
    LET criteria == searchCriteria(query, Default(options.searchInPath, TRUE))
        results == searchEngine_search(searchableItems(fs, gs), criteria)
    IN  [items |-> mapToSearchResult(results),
         totalCount |-> Len(searchableItems(fs, gs)),
         query |-> query]

\* search() from the point where Promise.all has resolved to <<fs, gs>>
search_resume(fs, gs, query, options) ==
    LET criteria == searchCriteria(query, Default(options.searchInPath, TRUE))
        results == searchEngine_search(searchableItems(fs, gs), criteria)
    IN  SearchResult(mapToSearchResult(results), query)

\* an advanced search that leaves the files out
advancedSearch_resume_foldersOnly(fs, gs, criteria) ==
    LET results == searchEngine_search(searchableItems(fs, <<>>), criteria)
    IN  SearchResult(mapToSearchResult(results), ADVANCED_SEARCH)

\* advancedSearch() from the point where Promise.all has resolved to <<fs, gs>>
advancedSearch_resume(fs, gs, criteria) ==
    LET results == searchEngine_search(searchableItems(fs, gs), criteria)
    IN  SearchResult(mapToSearchResult(results), ADVANCED_SEARCH)

\* a combinator that stores the values in the order they arrive
PromiseAll_resolve_inArrivalOrder(values, index, v) ==
    IF values[1] = None THEN [values EXCEPT ![1] = Some(v)]
    ELSE [values EXCEPT ![2] = Some(v)]

\* Promise.all stores the value of its index-th promise at position index
PromiseAll_resolve(values, index, v) ==
    [values EXCEPT ![index] = Some(v)]

\* the rejection reason of a provider method
ProviderFailure(method) == <<"DataProviderFailure", method>>

\* the controller's catch: error instanceof Error ? error.message : ...
FailureResponse(message) == [success |-> FALSE, error |-> message]

SuccessResponse(data) == [success |-> TRUE, data |-> data]

CRITERIA_REQUIRED == <<"S","e","a","r","c","h"," ","c","r","i","t","e","r","i","a"," ","a","r","e"," ","r","e","q","u","i","r","e","d">>

----------------------------------------------------------------------------
(* Provider data *)

Folder(id, name, parentId, path, createdAt, updatedAt) ==
    [id |-> id, name |-> name, parentId |-> parentId, path |-> path,
     createdAt |-> createdAt, updatedAt |-> updatedAt]

File(id, name, folderId, size, extension, path, createdAt, updatedAt) ==
    [id |-> id, name |-> name, folderId |-> folderId, size |-> size,
     extension |-> extension, path |-> path,
     createdAt |-> createdAt, updatedAt |-> updatedAt]

\* the backend test fixture
mockFolders ==
    << Folder(1, <<"D","o","c","u","m","e","n","t","s">>, None, <<"/","D","o","c","u","m","e","n","t","s">>, 5, 5),
       Folder(2, <<"I","m","a","g","e","s">>, Some(1), <<"/","D","o","c","u","m","e","n","t","s","/","I","m","a","g","e","s">>, 5, 5),
       Folder(3, <<"V","i","d","e","o","s">>, None, <<"/","V","i","d","e","o","s">>, 5, 5) >>

mockFiles ==
    << File(1, <<"d","o","c","u","m","e","n","t",".","p","d","f">>, 1, Some(1024), Some(<<"p","d","f">>),
            <<"/","D","o","c","u","m","e","n","t","s","/","d","o","c","u","m","e","n","t",".","p","d","f">>, 5, 5),
       File(2, <<"p","h","o","t","o",".","j","p","g">>, 2, Some(2048), Some(<<"j","p","g">>),
            <<"/","D","o","c","u","m","e","n","t","s","/","I","m","a","g","e","s","/","p","h","o","t","o",".","j","p","g">>, 5, 5),
       File(3, <<"v","i","d","e","o",".","m","p","4">>, 3, Some(4096), Some(<<"m","p","4">>),
            <<"/","V","i","d","e","o","s","/","v","i","d","e","o",".","m","p","4">>, 5, 5) >>

\* a second provider content: mixed case, ids out of order, a size of 0 (the
\* column default) and a null size and extension
mixedFolders ==
    << Folder(12, <<"d","o","c","s">>, None, <<"/","d","o","c","s">>, 1, 2),
       Folder(7, <<"I","M","A","G","E","S">>, Some(12), <<"/","d","o","c","s","/","I","M","A","G","E","S">>, 3, 4) >>

mixedFiles ==
    << File(40, <<"I","m","a","g","e","s",".","D","O","C">>, 7, Some(0), Some(<<"D","O","C">>),
            <<"/","d","o","c","s","/","I","M","A","G","E","S","/","I","m","a","g","e","s",".","D","O","C">>, 6, 7),
       File(3, <<"r","e","a","d","m","e">>, 12, None, None, <<"/","d","o","c","s","/","r","e","a","d","m","e">>, 8, 9) >>

Providers ==
    { [folders |-> mockFolders, files |-> mockFiles],
      [folders |-> mixedFolders, files |-> mixedFiles],
      [folders |-> <<>>, files |-> <<>>] }

----------------------------------------------------------------------------
(* Inputs *)

Range(s) == {s[i] : i \in 1..Len(s)}

Queries ==
    { <<"d","o","c","u","m","e","n","t">>, <<"D","O","C">>, <<"i","m","a","g","e","s">>, <<"p","h","o","t","o">>, <<>>,
      <<" ","D","o","c"," ">> }

OptionValues == {None, Some(TRUE), Some(FALSE)}

Options ==
    [includeFiles : OptionValues, includeFolders : OptionValues,
     searchInPath : OptionValues]

\* the searchable items of the providers
ItemUniverse ==
    UNION { Range(searchableItems(p.folders, p.files)) : p \in Providers }

CriteriaLeaves ==
    { NameSearchCriteria(<<"d","o","c">>), PathSearchCriteria(<<"i","m","a","g","e","s">>),
      TypeSearchCriteria(FOLDER), TypeSearchCriteria(FILE) }

RECURSIVE CriteriaOfSize(_)
RECURSIVE CriteriaListsOfSize(_)

\* the lists of criteria with n nodes in all
CriteriaListsOfSize(n) ==
    IF n = 0 THEN {<<>>}
    ELSE UNION { { <<h>> \o t : h \in CriteriaOfSize(k),
                               t \in CriteriaListsOfSize(n - k) } : k \in 1..n }

\* the criteria trees with n nodes
CriteriaOfSize(n) ==
    (IF n = 1 THEN CriteriaLeaves ELSE {})
        \cup { AndSearchCriteria(cs) : cs \in CriteriaListsOfSize(n - 1) }
        \cup { OrSearchCriteria(cs) : cs \in CriteriaListsOfSize(n - 1) }

\* Or([And([Type(folder), Name(a)]), And([Type(file), Path(b)])])
FolderNameOrFilePath(a, b) ==
    OrSearchCriteria(
        << AndSearchCriteria(<<TypeSearchCriteria(FOLDER), NameSearchCriteria(a)>>),
           AndSearchCriteria(<<TypeSearchCriteria(FILE), PathSearchCriteria(b)>>) >>)

UnionTerms == { <<"I","m","a","g","e","s">>, <<"V","i","d","e","o","s">>, <<"d","o","c">> }

CriteriaUniverse ==
    UNION { CriteriaOfSize(n) : n \in 1..MaxNodes }

\* well-formed leaves, one of each kind
NodeLeaves ==
    { Node("name", Some(<<"d","o","c">>), None),
      Node("path", Some(<<"i","m","a","g","e","s">>), None),
      Node("type", Some(FOLDER), None) }

\* nodes the body schema admits and the builder does not: an unknown tag,
\* and a composite tag without a children list
BadLeaves ==
    { Node("bogus", Some(<<"x">>), None),
      Node("and", None, None) }

RECURSIVE NodesOfSize(_, _, _)
RECURSIVE NodeListsOfSize(_, _, _)

\* the lists of criteria nodes with n nodes in all
NodeListsOfSize(n, leaves, tags) ==
    IF n = 0 THEN {<<>>}
    ELSE UNION { { <<h>> \o t : h \in NodesOfSize(k, leaves, tags),
                               t \in NodeListsOfSize(n - k, leaves, tags) } :
                 k \in 1..n }

\* the criteria nodes with n nodes, the node itself counted
NodesOfSize(n, leaves, tags) ==
    (IF n = 1 THEN leaves ELSE {})
        \cup { Node(tag, None, Some(l)) :
                 tag \in tags, l \in NodeListsOfSize(n - 1, leaves, tags) }

\* the criteria lists handed to buildSearchCriteria directly
CriteriaData ==
    UNION { NodeListsOfSize(n, NodeLeaves \cup BadLeaves, {"and", "or", "not"}) :
            n \in 1..MaxNodes }

\* the criteria lists a POST /advanced body carries
Bodies ==
    UNION { NodeListsOfSize(n,
                { Node("name", Some(<<"d","o","c">>), None),
                  Node("bogus", Some(<<"x">>), None),
                  Node("and", None, None) },
                {"and", "or"}) : n \in 0..MaxNodes }

Alphabet == {"a", "A", "b"}

\* the strings over Alphabet of length n at most
Strings(n) ==
    {<<>>} \cup UNION { [1..k -> Alphabet] : k \in 1..n }

FewStrings == { <<>>, <<"b">>, <<"A", "b">> }

\* the name and path pairs of the items a single leaf criteria is run on
LeafFields ==
    (Strings(MaxLen) \X FewStrings) \cup (FewStrings \X Strings(MaxLen))

LeafItems ==
    { SearchableFolder(Folder(1, f[1], None, f[2], 0, 0)) : f \in LeafFields }
        \cup { SearchableFile(File(1, f[1], 1, None, None, f[2], 0, 0)) :
                 f \in LeafFields }

LeafCriteria ==
    { NameSearchCriteria(t) : t \in Strings(MaxLen) }
        \cup { PathSearchCriteria(t) : t \in Strings(MaxLen) }

\* the property names read off an item from outside its class
PropertyNames == {"folder", "file", "size"}

\* the item lists handed to the engine directly, repeated items included
EngineItems ==
    Range(searchableItems(mockFolders, mockFiles))

ItemLists ==
    {<<>>} \cup UNION { [1..k -> EngineItems] : k \in 1..MaxItems }

EngineCriteria ==
    CriteriaLeaves
        \cup { AndSearchCriteria(cs) : cs \in CriteriaLeaves \X CriteriaLeaves }
        \cup { OrSearchCriteria(<<>>), AndSearchCriteria(<<>>) }

\* the criteria handed to advancedSearch directly
ServiceCriteria ==
    CriteriaLeaves
        \cup { AndSearchCriteria(<<>>), OrSearchCriteria(<<>>) }
        \cup { FolderNameOrFilePath(a, b) : a \in UnionTerms, b \in UnionTerms }

----------------------------------------------------------------------------
(* The service and the controller, one call at a time *)

Idle ==
    /\ pc = "idle"
    /\ call = [entry |-> "none"]
    /\ slots = <<None, None>>
    /\ pending = {}
    /\ rejection = None
    /\ settled = <<>>
    /\ getFoldersCalls = 0
    /\ getFilesCalls = 0
    /\ advancedCalls = 0
    /\ result = None

NoUnit == unit = [op |-> "none"]

\* nothing but the one-call search service is running
NoOthers ==
    /\ inflight = [c \in {} |-> c]
    /\ table = <<>>
    /\ fcall = [op |-> "none"]
    /\ fileTable = <<>>
    /\ explorer = [mounted |-> FALSE]

\* new SearchService(dataProvider): the engine defaults to new SearchEngine()
Init ==
    /\ \E p \in Providers : folders = p.folders /\ files = p.files
    /\ engine = "SearchEngine"
    /\ Idle
    /\ NoUnit
    /\ NoOthers

\* a search that fetches both kinds and ignores the include options
Search_fetchesBoth(query, options) ==
    /\ pc = "idle"
    /\ call' = [entry |-> "search", query |-> query, options |-> options]
    /\ getFoldersCalls' = 1
    /\ getFilesCalls' = 1
    /\ pending' = {"getFolders", "getFiles"}
    /\ slots' = <<None, None>>
    /\ pc' = "awaiting"
    /\ UNCHANGED <<folders, files, rejection, settled, advancedCalls,
                   result, unit, otherVars>>

\* SearchService.search(query, options), up to the await of Promise.all
Search(query, options) ==
    LET includeFiles == Default(options.includeFiles, TRUE)
        includeFolders == Default(options.includeFolders, TRUE)
    IN  /\ pc = "idle"
        /\ call' = [entry |-> "search", query |-> query, options |-> options]
        /\ getFoldersCalls' = IF includeFolders THEN 1 ELSE 0
        /\ getFilesCalls' = IF includeFiles THEN 1 ELSE 0
        /\ pending' = (IF includeFolders THEN {"getFolders"} ELSE {})
                          \cup (IF includeFiles THEN {"getFiles"} ELSE {})
        /\ slots' = << IF includeFolders THEN None ELSE Some(<<>>),
                       IF includeFiles THEN None ELSE Some(<<>>) >>
        /\ pc' = "awaiting"
        /\ UNCHANGED <<folders, files, rejection, settled, advancedCalls,
                       result, unit, otherVars>>

\* the part of advancedSearch(criteria) before the await of Promise.all
advancedSearch_start ==
    /\ advancedCalls' = advancedCalls + 1
    /\ getFoldersCalls' = 1
    /\ getFilesCalls' = 1
    /\ pending' = {"getFolders", "getFiles"}
    /\ slots' = <<None, None>>
    /\ pc' = "awaiting"

\* SearchService.advancedSearch(criteria), up to the await of Promise.all
AdvancedSearch(criteria) ==
    /\ pc = "idle"
    /\ call' = [entry |-> "advancedSearch", criteria |-> criteria]
    /\ advancedSearch_start
    /\ UNCHANGED <<folders, files, rejection, settled, result, unit, otherVars>>

\* the POST /advanced handler, up to its await of advancedSearch or to its
\* response when it does not get that far
PostAdvanced(criteria) ==
    /\ pc = "idle"
    /\ IF Len(criteria) = 0
       THEN /\ call' = [entry |-> "POST /advanced", body |-> criteria]
            /\ result' = Some(FailureResponse(CRITERIA_REQUIRED))
            /\ pc' = "done"
            /\ UNCHANGED <<slots, pending, getFoldersCalls, getFilesCalls,
                           advancedCalls>>
       ELSE LET built == buildSearchCriteria(criteria)
            IN  IF built.threw
                THEN /\ call' = [entry |-> "POST /advanced", body |-> criteria]
                     /\ result' = Some(FailureResponse(built.error))
                     /\ pc' = "done"
                     /\ UNCHANGED <<slots, pending, getFoldersCalls,
                                    getFilesCalls, advancedCalls>>
                ELSE /\ call' = [entry |-> "POST /advanced", body |-> criteria,
                                 criteria |-> built.value]
                     /\ advancedSearch_start
                     /\ UNCHANGED result
    /\ UNCHANGED <<folders, files, rejection, settled, unit, otherVars>>

\* a fetch that hands over the provider's own list and leaves it empty
Resolve_draining(method) ==
    /\ method \in pending
    /\ pending' = pending \ {method}
    /\ slots' = IF method = "getFolders"
                THEN PromiseAll_resolve(slots, 1, folders)
                ELSE PromiseAll_resolve(slots, 2, files)
    /\ folders' = IF method = "getFolders" THEN <<>> ELSE folders
    /\ files' = IF method = "getFiles" THEN <<>> ELSE files
    /\ settled' = Append(settled, method)
    /\ UNCHANGED <<pc, call, rejection, getFoldersCalls,
                   getFilesCalls, advancedCalls, result, unit, otherVars>>

\* a provider fetch resolves with the provider's current content
Resolve(method) ==
    /\ method \in pending
    /\ pending' = pending \ {method}
    /\ slots' = IF method = "getFolders"
                THEN PromiseAll_resolve(slots, 1, folders)
                ELSE PromiseAll_resolve(slots, 2, files)
    /\ settled' = Append(settled, method)
    /\ UNCHANGED <<folders, files, pc, call, rejection, getFoldersCalls,
                   getFilesCalls, advancedCalls, result, unit, otherVars>>

GetFoldersResolves == Resolve("getFolders")

GetFilesResolves == Resolve("getFiles")

\* a provider fetch rejects; Promise.all keeps the first rejection
Reject(method) ==
    /\ method \in pending
    /\ pending' = pending \ {method}
    /\ rejection' = IF rejection = None
                    THEN Some(ProviderFailure(method)) ELSE rejection
    /\ settled' = Append(settled, method)
    /\ UNCHANGED <<folders, files, pc, call, slots, getFoldersCalls,
                   getFilesCalls, advancedCalls, result, unit, otherVars>>

GetFoldersRejects == Reject("getFolders")

GetFilesRejects == Reject("getFiles")

\* an outcome built from whatever fetch succeeded
Outcome_partial ==
    IF call.entry = "search"
    THEN Return(search_resume(Default(slots[1], <<>>), Default(slots[2], <<>>),
                              call.query, call.options))
    ELSE Return(advancedSearch_resume(Default(slots[1], <<>>),
                                      Default(slots[2], <<>>), call.criteria))

\* what the call yields once Promise.all has settled
Outcome ==
    IF rejection # None THEN Throw(rejection[1])
    ELSE IF call.entry \in {"search", "GET /"}
         THEN Return(search_resume(slots[1][1], slots[2][1],
                                   call.query, call.options))
         ELSE Return(advancedSearch_resume(slots[1][1], slots[2][1],
                                           call.criteria))

\* the continuation after the await: the service call returns or throws, and
\* a handler turns that into its response
Settle ==
    /\ pc = "awaiting"
    /\ rejection # None \/ (slots[1] # None /\ slots[2] # None)
    /\ result' = IF call.entry \in {"POST /advanced", "GET /"}
                 THEN IF Outcome.threw
                      THEN Some(FailureResponse(Outcome.error))
                      ELSE Some(SuccessResponse(Outcome.value))
                 ELSE Some(Outcome)
    /\ pc' = "done"
    /\ UNCHANGED <<folders, files, call, slots, pending, rejection, settled,
                   getFoldersCalls, getFilesCalls, advancedCalls, unit, otherVars>>

\* the caller goes on to its next call
NextCall ==
    /\ pc = "done"
    /\ pending = {}
    /\ pc' = "idle"
    /\ call' = [entry |-> "none"]
    /\ slots' = <<None, None>>
    /\ rejection' = None
    /\ settled' = <<>>
    /\ getFoldersCalls' = 0
    /\ getFilesCalls' = 0
    /\ advancedCalls' = 0
    /\ result' = None
    /\ UNCHANGED <<folders, files, pending, unit, otherVars>>

----------------------------------------------------------------------------
(* Direct calls of a criteria, of the engine and of the builder *)

\* criteria.execute(item)
Execute(criteria, item) ==
    /\ unit = [op |-> "none"]
    /\ unit' = [op |-> "execute", criteria |-> criteria, item |-> item,
                out |-> execute(criteria, item)]
    /\ UNCHANGED <<svcVars, otherVars>>

\* new SearchEngine().search(items, criteria)
EngineSearch(items, criteria) ==
    /\ unit = [op |-> "none"]
    /\ unit' = [op |-> "search", items |-> items, criteria |-> criteria,
                out |-> SearchEngine_search(items, criteria)]
    /\ UNCHANGED <<svcVars, otherVars>>

\* buildSearchCriteria(criteriaData)
Build(criteriaData) ==
    /\ unit = [op |-> "none"]
    /\ unit' = [op |-> "build", criteriaData |-> criteriaData,
                out |-> buildSearchCriteria(criteriaData)]
    /\ UNCHANGED <<svcVars, otherVars>>

\* (item as any)[name]
ReadProperty(item, name) ==
    /\ unit = [op |-> "none"]
    /\ unit' = [op |-> "property", item |-> item, name |-> name,
                out |-> getProperty(item, name)]
    /\ UNCHANGED <<svcVars, otherVars>>

\* the caller drops the outcome and goes on
UnitReturn ==
    /\ unit # [op |-> "none"]
    /\ unit' = [op |-> "none"]
    /\ UNCHANGED <<svcVars, otherVars>>

InitUnit ==
    /\ folders = <<>>
    /\ files = <<>>
    /\ engine = "SearchEngine"
    /\ Idle
    /\ NoUnit
    /\ NoOthers

NextUnit ==
    \/ NoUnit /\ \E c \in LeafCriteria, x \in LeafItems : Execute(c, x)
    \/ NoUnit /\ \E c \in CriteriaUniverse, x \in ItemUniverse : Execute(c, x)
    \/ NoUnit /\ \E l \in ItemLists, c \in EngineCriteria : EngineSearch(l, c)
    \/ NoUnit /\ \E x \in ItemUniverse, n \in PropertyNames : ReadProperty(x, n)
    \/ NoUnit /\ \E d \in CriteriaData : Build(d)
    \/ UnitReturn

SpecUnit == InitUnit /\ [][NextUnit]_vars

----------------------------------------------------------------------------
Next ==
    \/ pc = "idle" /\ \E q \in Queries, o \in Options : Search(q, o)
    \/ pc = "idle" /\ \E c \in ServiceCriteria : AdvancedSearch(c)
    \/ pc = "idle" /\ \E b \in Bodies : PostAdvanced(b)
    \/ GetFoldersResolves
    \/ GetFilesResolves
    \/ GetFoldersRejects
    \/ GetFilesRejects
    \/ Settle
    \/ NextCall

Spec == Init /\ [][Next]_vars

\* new SearchService(dataProvider, searchEngine): either engine is injected
InitInjected ==
    /\ \E p \in Providers : folders = p.folders /\ files = p.files
    /\ engine \in Engines
    /\ Idle
    /\ NoUnit
    /\ NoOthers

SpecInjected == InitInjected /\ [][Next]_vars

----------------------------------------------------------------------------
(* Several calls in flight on the one SearchService of the controller *)

\* most calls in flight together
MaxCalls == 2

Calls == 1..MaxCalls

\* a call that has not been made; failed lists the call's own fetches that
\* rejected, and overlapped records that another call was awaiting its
\* fetches when this one settled
IdleCall ==
    [pc |-> "idle", call |-> [entry |-> "none"], slots |-> <<None, None>>,
     pending |-> {}, rejection |-> None, failed |-> <<>>, result |-> None,
     overlapped |-> FALSE]

\* search(query, options) at its await of Promise.all
search_await(query, options) ==
    LET includeFiles == Default(options.includeFiles, TRUE)
        includeFolders == Default(options.includeFolders, TRUE)
    IN  [pc |-> "awaiting",
         call |-> [entry |-> "search", query |-> query, options |-> options],
         slots |-> << IF includeFolders THEN None ELSE Some(<<>>),
                      IF includeFiles THEN None ELSE Some(<<>>) >>,
         pending |-> (IF includeFolders THEN {"getFolders"} ELSE {})
                         \cup (IF includeFiles THEN {"getFiles"} ELSE {}),
         rejection |-> None, failed |-> <<>>, result |-> None,
         overlapped |-> FALSE]

\* advancedSearch(criteria) at its await of Promise.all
advancedSearch_await(criteria) ==
    [pc |-> "awaiting",
     call |-> [entry |-> "advancedSearch", criteria |-> criteria],
     slots |-> <<None, None>>, pending |-> {"getFolders", "getFiles"},
     rejection |-> None, failed |-> <<>>, result |-> None,
     overlapped |-> FALSE]

\* values kept in a field of the service, which every call awaiting reads
Deliver_toTheService(calls, c, index, v) ==
    [d \in DOMAIN calls |->
        IF calls[d].pc = "awaiting"
        THEN [calls[d] EXCEPT !.slots = PromiseAll_resolve(@, index, v)]
        ELSE calls[d]]

\* const [folders, files] = await Promise.all(...): the values fetched for
\* call c are locals of that call
Deliver(calls, c, index, v) ==
    [calls EXCEPT ![c].slots = PromiseAll_resolve(@, index, v)]

\* what call k yields once its Promise.all has settled
OutcomeOf(k) ==
    IF k.rejection # None THEN Throw(k.rejection[1])
    ELSE IF k.call.entry = "search"
         THEN Return(search_resume(k.slots[1][1], k.slots[2][1],
                                   k.call.query, k.call.options))
         ELSE Return(advancedSearch_resume(k.slots[1][1], k.slots[2][1],
                                           k.call.criteria))

\* the searches and the criteria the concurrent callers submit
ConcurrentSearches ==
    { [query |-> <<"i","m","a","g","e","s">>,
       options |-> [includeFiles |-> None, includeFolders |-> Some(FALSE),
                    searchInPath |-> None]] }

ConcurrentCriteria == { TypeSearchCriteria(FOLDER) }

CallSearch(c, query, options) ==
    /\ inflight[c].pc = "idle"
    /\ inflight' = [inflight EXCEPT ![c] = search_await(query, options)]
    /\ UNCHANGED <<svcVars, unit, engine, table, fcall, restVars>>

CallAdvancedSearch(c, criteria) ==
    /\ inflight[c].pc = "idle"
    /\ inflight' = [inflight EXCEPT ![c] = advancedSearch_await(criteria)]
    /\ UNCHANGED <<svcVars, unit, engine, table, fcall, restVars>>

\* a provider fetch of call c resolves with the provider's content
FetchResolves(c, method) ==
    /\ method \in inflight[c].pending
    /\ inflight' =
           LET delivered == IF method = "getFolders"
                            THEN Deliver(inflight, c, 1, folders)
                            ELSE Deliver(inflight, c, 2, files)
           IN  [delivered EXCEPT ![c].pending = @ \ {method}]
    /\ UNCHANGED <<svcVars, unit, engine, table, fcall, restVars>>

\* a provider fetch of call c rejects
FetchRejects(c, method) ==
    /\ method \in inflight[c].pending
    /\ inflight' =
           [inflight EXCEPT
               ![c].pending = @ \ {method},
               ![c].rejection =
                   IF @ = None THEN Some(ProviderFailure(method)) ELSE @,
               ![c].failed = Append(@, method)]
    /\ UNCHANGED <<svcVars, unit, engine, table, fcall, restVars>>

\* the continuation of call c after its await
CallSettles(c) ==
    /\ inflight[c].pc = "awaiting"
    /\ \/ inflight[c].rejection # None
       \/ inflight[c].slots[1] # None /\ inflight[c].slots[2] # None
    /\ inflight' = [inflight EXCEPT
                       ![c].pc = "done",
                       ![c].result = Some(OutcomeOf(inflight[c])),
                       ![c].overlapped =
                           \E d \in Calls \ {c} : inflight[d].pc = "awaiting"]
    /\ UNCHANGED <<svcVars, unit, engine, table, fcall, restVars>>

\* the caller of call c has its outcome and may call again
CallReturns(c) ==
    /\ inflight[c].pc = "done"
    /\ inflight[c].pending = {}
    /\ inflight' = [inflight EXCEPT ![c] = IdleCall]
    /\ UNCHANGED <<svcVars, unit, engine, table, fcall, restVars>>

\* the controller's service over the fixture, with no call made yet
InitConcurrent ==
    /\ folders = mockFolders
    /\ files = mockFiles
    /\ engine = "SearchEngine"
    /\ Idle
    /\ NoUnit
    /\ inflight = [c \in Calls |-> IdleCall]
    /\ table = <<>>
    /\ fcall = [op |-> "none"]
    /\ fileTable = <<>>
    /\ explorer = [mounted |-> FALSE]

NextConcurrent ==
    \/ \E c \in Calls, s \in ConcurrentSearches :
           CallSearch(c, s.query, s.options)
    \/ \E c \in Calls, t \in ConcurrentCriteria : CallAdvancedSearch(c, t)
    \/ \E c \in Calls, m \in {"getFolders", "getFiles"} : FetchResolves(c, m)
    \/ \E c \in Calls, m \in {"getFolders", "getFiles"} : FetchRejects(c, m)
    \/ \E c \in Calls : CallSettles(c)
    \/ \E c \in Calls : CallReturns(c)

SpecConcurrent == InitConcurrent /\ [][NextConcurrent]_vars

----------------------------------------------------------------------------
(* The folder service (services/index.ts) over the folder repository *)

\* most rows of the folders table
MaxFolders == 3

\* the names a caller gives to a folder it creates
NewNames == { <<"W","o","r","k">>, <<"x">> }

\* a row as the table holds it before the service is used: id decides the
\* name and the path, which the tree only copies
FolderRow(id, parentId) ==
    Folder(id, <<"f">> \o toString(id), parentId, <<"p">> \o toString(id), 0, 0)

RECURSIVE FolderRows(_, _, _)
\* the first n rows of the table that returns the ids in the order p
FolderRows(p, parent, n) ==
    IF n = 0 THEN <<>>
    ELSE Append(FolderRows(p, parent, n - 1), FolderRow(p[n], parent[p[n]]))

\* the tables of n rows: ids 1..n (serial, primary key) in any order of
\* retrieval, each parent_id null or the id of a row (foreign key); a row
\* may be its own parent and parents may form a cycle
FolderTablesOfSize(n) ==
    LET orders == { q \in [1..n -> 1..n] :
                      \A i, j \in 1..n : q[i] = q[j] => i = j }
        parents == [1..n -> {None} \cup { Some(k) : k \in 1..n }]
    IN  { FolderRows(p, parent, n) : p \in orders, parent \in parents }

\* the tables of at most n rows
FolderTables(n) == UNION { FolderTablesOfSize(k) : k \in 0..n }

\* db.select().from(folders)
FolderRepository_findAll(t) == t

\* db.select().from(folders).where(eq(folders.id, id)), then result[0]
FolderRepository_findById(t, id) ==
    LET HasId(row) == row.id = id
        found == SelectSeq(t, HasId)
    IN  IF found = <<>> THEN None ELSE Some(found[1])

ForeignKeyViolation == <<"folders_parent_id_folders_id_fk">>

\* the next value of the serial id
nextId(t) ==
    IF t = <<>> THEN 1
    ELSE 1 + (CHOOSE m \in { t[i].id : i \in 1..Len(t) } :
                 \A i \in 1..Len(t) : t[i].id <= m)

\* db.insert(folders).values(folder).returning(), then result[0]; the insert
\* fails when parent_id is the id of no row
FolderRepository_create(t, input) ==
    IF input.parentId # None
       /\ FolderRepository_findById(t, input.parentId[1]) = None
    THEN [table |-> t, out |-> Throw(ForeignKeyViolation)]
    ELSE LET row == Folder(nextId(t), input.name, input.parentId, input.path,
                           0, 0)
         IN  [table |-> Append(t, row), out |-> Return(row)]

\* if (folder.parentId): a number other than 0
truthy(parentId) == parentId # None /\ parentId # Some(0)

\* a createInput whose path is the name alone
createFolder_input_nameOnly(folder, parent) ==
    [name |-> folder.name, parentId |-> folder.parentId, path |-> folder.name]

\* createInput, given what findById found for a truthy parentId
createFolder_input(folder, parent) ==
    [name |-> folder.name,
     parentId |-> folder.parentId,
     path |-> IF parent # None
              THEN parent[1].path \o <<"/">> \o folder.name
              ELSE folder.name]

RECURSIVE buildFolderTree_lastFirst(_, _)
\* a tree that lists the children of a folder last row first
buildFolderTree_lastFirst(fs, parentId) ==
    LET IsChild(folder) == folder.parentId = parentId
        children == SelectSeq(fs, IsChild)
        n == Len(children)
    IN  [i \in 1..n |->
            LET folder == children[n + 1 - i]
            IN  [id |-> folder.id,
                 name |-> folder.name,
                 path |-> folder.path,
                 parentId |-> folder.parentId,
                 children |-> buildFolderTree_lastFirst(fs, Some(folder.id)),
                 hasChildren |->
                     \E k \in 1..Len(fs) : fs[k].parentId = Some(folder.id)]]

RECURSIVE buildFolderTree(_, _)
buildFolderTree(fs, parentId) ==
    LET IsChild(folder) == folder.parentId = parentId
        children == SelectSeq(fs, IsChild)
    IN  [i \in 1..Len(children) |->
            LET folder == children[i]
            IN  [id |-> folder.id,
                 name |-> folder.name,
                 path |-> folder.path,
                 parentId |-> folder.parentId,
                 children |-> buildFolderTree(fs, Some(folder.id)),
                 hasChildren |->
                     \E k \in 1..Len(fs) : fs[k].parentId = Some(folder.id)]]

NoFolderCall == fcall = [op |-> "none"]

\* FolderService.createFolder(folder)
CreateFolder(folder) ==
    LET lookup == truthy(folder.parentId)
        parent == IF lookup
                  THEN FolderRepository_findById(table, folder.parentId[1])
                  ELSE None
        input == createFolder_input(folder, parent)
        created == FolderRepository_create(table, input)
    IN  /\ NoFolderCall
        /\ Len(table) < MaxFolders
        /\ nextId(table) <= MaxFolders
        /\ table' = created.table
        /\ fcall' = [op |-> "createFolder",
                     folder |-> folder,
                     before |-> table,
                     findByIdCalls |-> IF lookup THEN <<folder.parentId[1]>>
                                       ELSE <<>>,
                     createCalls |-> <<[input |-> input,
                                        returned |-> created.out]>>,
                     out |-> created.out]
        /\ UNCHANGED <<svcVars, unit, engine, inflight, restVars>>

\* FolderService.getFolderTree()
GetFolderTree ==
    /\ NoFolderCall
    /\ fcall' = [op |-> "getFolderTree",
                 out |-> Return(buildFolderTree(FolderRepository_findAll(table),
                                                None))]
    /\ UNCHANGED <<table, svcVars, unit, engine, inflight, restVars>>

\* the caller has the outcome and goes on
FolderReturn ==
    /\ ~NoFolderCall
    /\ fcall' = [op |-> "none"]
    /\ UNCHANGED <<table, svcVars, unit, engine, inflight, restVars>>

\* what createFolder is called with: a name, and a parentId that is null, 0
\* or an id
NewFolders ==
    [name : NewNames,
     parentId : {None} \cup { Some(k) : k \in 0..MaxFolders }]

InitFolders ==
    /\ folders = <<>>
    /\ files = <<>>
    /\ engine = "SearchEngine"
    /\ Idle
    /\ NoUnit
    /\ inflight = [c \in {} |-> c]
    /\ table \in FolderTables(MaxFolders)
    /\ NoFolderCall
    /\ fileTable = <<>>
    /\ explorer = [mounted |-> FALSE]

NextFolders ==
    \/ NoFolderCall /\ \E f \in NewFolders : CreateFolder(f)
    \/ GetFolderTree
    \/ FolderReturn

SpecFolders == InitFolders /\ [][NextFolders]_vars

----------------------------------------------------------------------------
(* The folder service from an empty table: create, update and delete *)

\* { ...row, ...partial }: the fields partial supplies replace the row's
Spread(row, partial) ==
    [f \in DOMAIN row |-> IF f \in DOMAIN partial THEN partial[f] ELSE row[f]]

\* db.update(folders).set({ ...folder, updatedAt: new Date() })
\*   .where(eq(folders.id, id)).returning(), then result[0]; no row has the
\* id: nothing is updated; the new parent_id is the id of no row: the
\* update fails
FolderRepository_update(t, id, partial) ==
    IF FolderRepository_findById(t, id) = None
    THEN [table |-> t, out |-> Return(None)]
    ELSE IF /\ "parentId" \in DOMAIN partial
            /\ partial.parentId # None
            /\ FolderRepository_findById(t, partial.parentId[1]) = None
         THEN [table |-> t, out |-> Throw(ForeignKeyViolation)]
         ELSE LET Updated(row) ==
                      IF row.id = id
                      THEN [Spread(row, partial) EXCEPT !.updatedAt = 1]
                      ELSE row
                  updated == [i \in 1..Len(t) |-> Updated(t[i])]
              IN  [table |-> updated,
                   out |-> Return(FolderRepository_findById(updated, id))]

RECURSIVE Cascade(_, _)
\* ON DELETE cascade: the ids deleted with the ids in doomed
Cascade(t, doomed) ==
    LET more == { t[i].id : i \in { j \in 1..Len(t) :
                      /\ t[j].parentId # None
                      /\ t[j].parentId[1] \in doomed } }
    IN  IF more \subseteq doomed THEN doomed ELSE Cascade(t, doomed \cup more)

\* db.delete(folders).where(eq(folders.id, id)), then rowCount > 0
FolderRepository_delete(t, id) ==
    LET doomed == Cascade(t, {id})
        Stays(row) == row.id \notin doomed
    IN  [table |-> SelectSeq(t, Stays),
         out |-> Return(FolderRepository_findById(t, id) # None)]

\* updatedFolder || null
OrNull(x) == x

\* FolderService.updateFolder(id, folder)
UpdateFolder(id, partial) ==
    LET updated == FolderRepository_update(table, id, partial)
    IN  /\ NoFolderCall
        /\ table' = updated.table
        /\ fcall' = [op |-> "updateFolder", id |-> id, partial |-> partial,
                     out |-> IF updated.out.threw THEN updated.out
                             ELSE Return(OrNull(updated.out.value))]
        /\ UNCHANGED <<svcVars, unit, engine, inflight, restVars>>

\* FolderService.deleteFolder(id)
DeleteFolder(id) ==
    LET deleted == FolderRepository_delete(table, id)
    IN  /\ NoFolderCall
        /\ table' = deleted.table
        /\ fcall' = [op |-> "deleteFolder", id |-> id,
                     out |-> deleted.out]
        /\ UNCHANGED <<svcVars, unit, engine, inflight, restVars>>

\* the ids a caller names, one of them the id of no row
FolderIds == 1..(MaxFolders + 1)

\* the bodies of PUT /folders/:id: a name, a parentId (null or an id), or both
FolderPartials ==
    { [name |-> <<"x">>],
      [parentId |-> None],
      [parentId |-> Some(1)],
      [parentId |-> Some(MaxFolders + 1)],
      [name |-> <<"W","o","r","k">>, parentId |-> Some(2)] }

\* the service over the table as the migration leaves it
InitPaths ==
    /\ folders = <<>>
    /\ files = <<>>
    /\ engine = "SearchEngine"
    /\ Idle
    /\ NoUnit
    /\ inflight = [c \in {} |-> c]
    /\ table = <<>>
    /\ NoFolderCall
    /\ fileTable = <<>>
    /\ explorer = [mounted |-> FALSE]

NextPaths ==
    \/ NoFolderCall /\ \E f \in NewFolders : CreateFolder(f)
    \/ NoFolderCall /\ \E id \in FolderIds, f \in FolderPartials :
           UpdateFolder(id, f)
    \/ NoFolderCall /\ \E id \in FolderIds : DeleteFolder(id)
    \/ FolderReturn

SpecPaths == InitPaths /\ [][NextPaths]_vars

----------------------------------------------------------------------------
(* FileService and FileRepository *)

\* most rows of the files table
MaxFiles == 2

\* a property that was not supplied reads undefined; one that was reads its
\* value, which may be null
undefined == <<>>

Defined(v) == <<v>>

\* file.name
Read(partial, key) ==
    IF key \in DOMAIN partial THEN Defined(partial[key]) ELSE undefined

\* file.size ?? null
OrElseNull(x) == IF x = undefined \/ x = Defined(None) THEN Defined(None) ELSE x

FileRepository_findById(t, id) ==
    LET HasId(row) == row.id = id
        found == SelectSeq(t, HasId)
    IN  IF found = <<>> THEN None ELSE Some(found[1])

\* db.insert(files).values(file).returning()
FileRepository_create(fs, t, input) ==
    IF FolderRepository_findById(fs, input.folderId) = None
    THEN [table |-> t, out |-> Throw(ForeignKeyViolation)]
    ELSE LET row == File(nextId(t), input.name, input.folderId, input.size,
                         input.extension, input.path, 0, 0)
         IN  [table |-> Append(t, row), out |-> Return(row)]

\* .set(values): a column whose value is undefined is left out of the SET
\* clause, a column whose value is null is set to NULL
Set(row, values) ==
    [f \in DOMAIN row |->
        IF f \in DOMAIN values /\ values[f] # undefined
        THEN values[f][1] ELSE row[f]]

\* db.update(files).set({...file, updatedAt: new Date()}).where(...).returning()
FileRepository_update(fs, t, id, file) ==
    LET found == FileRepository_findById(t, id)
        values == [f \in DOMAIN file \cup {"updatedAt"} |->
                      IF f = "updatedAt" THEN Defined(1) ELSE file[f]]
    IN  IF found = None THEN [table |-> t, out |-> Return(None)]
        ELSE IF /\ file.folderId # undefined
                /\ FolderRepository_findById(fs, file.folderId[1]) = None
             THEN [table |-> t, out |-> Throw(ForeignKeyViolation)]
             ELSE LET updated == [i \in 1..Len(t) |->
                                     IF t[i].id = id THEN Set(t[i], values)
                                     ELSE t[i]]
                  IN  [table |-> updated,
                       out |-> Return(FileRepository_findById(updated, id))]

\* FileService.createFile
CreateFile(file) ==
    LET folder == FolderRepository_findById(table, file.folderId)
        path == IF folder # None
                THEN folder[1].path \o <<"/">> \o file.name
                ELSE file.name
        createInput == [name |-> file.name,
                        folderId |-> file.folderId,
                        path |-> path,
                        size |-> OrElseNull(Read(file, "size"))[1],
                        extension |-> OrElseNull(Read(file, "extension"))[1]]
        created == FileRepository_create(table, fileTable, createInput)
    IN  /\ NoFolderCall
        /\ nextId(fileTable) <= MaxFiles
        /\ fileTable' = created.table
        /\ fcall' = [op |-> "createFile", file |-> file, out |-> created.out]
        /\ UNCHANGED <<table, svcVars, unit, engine, inflight, explorer>>

\* FileService.updateFile
UpdateFile(id, file) ==
    LET updateInput == [name |-> Read(file, "name"),
                        folderId |-> Read(file, "folderId"),
                        path |-> Read(file, "path"),
                        size |-> OrElseNull(Read(file, "size")),
                        extension |-> OrElseNull(Read(file, "extension"))]
        updated == FileRepository_update(table, fileTable, id, updateInput)
    IN  /\ NoFolderCall
        /\ fileTable' = updated.table
        /\ fcall' = [op |-> "updateFile", id |-> id, file |-> file,
                     before |-> fileTable,
                     out |-> IF updated.out.threw THEN updated.out
                             ELSE Return(OrNull(updated.out.value))]
        /\ UNCHANGED <<table, svcVars, unit, engine, inflight, explorer>>

\* the bodies of POST /api/v1/files
NewFiles ==
    { [name |-> <<"a">>, folderId |-> 1],
      [name |-> <<"a">>, folderId |-> 1, size |-> Some(1024),
       extension |-> Some(<<"t","x","t">>)],
      [name |-> <<"b">>, folderId |-> 2, size |-> Some(0)],
      [name |-> <<"b">>, folderId |-> 3] }

\* the bodies of PUT /api/v1/files/:id
FilePartials ==
    { [name |-> <<"x">>],
      [folderId |-> 2],
      [folderId |-> 3],
      [size |-> Some(7)],
      [extension |-> Some(<<"m","d">>)],
      [name |-> <<"x">>, size |-> Some(7), extension |-> Some(<<"m","d">>)] }

InitFiles ==
    /\ folders = <<>>
    /\ files = <<>>
    /\ engine = "SearchEngine"
    /\ Idle
    /\ NoUnit
    /\ inflight = [c \in {} |-> c]
    /\ table = << Folder(1, <<"W","o","r","k">>, None, <<"W","o","r","k">>, 0, 0),
                  Folder(2, <<"x">>, Some(1), <<"W","o","r","k","/","x">>, 0, 0) >>
    /\ NoFolderCall
    /\ fileTable = <<>>
    /\ explorer = [mounted |-> FALSE]

NextFiles ==
    \/ NoFolderCall /\ \E file \in NewFiles : CreateFile(file)
    \/ NoFolderCall /\ \E id \in 1..(MaxFiles + 1), file \in FilePartials :
           UpdateFile(id, file)
    \/ FolderReturn

SpecFiles == InitFiles /\ [][NextFiles]_vars

----------------------------------------------------------------------------
(* The frontend component FolderContents.vue *)

\* most items in the items prop
MaxListed == 3

\* a FileSystemItem as the component reads it; modifiedAt is an ISO date,
\* kept as the day it names
FileSystemItem(id, name, type, size, modifiedAt) ==
    [id |-> id, name |-> name, type |-> type, size |-> size,
     modifiedAt |-> [day |-> modifiedAt]]

\* new Date(iso).getTime(): the milliseconds of the date
getTime(iso) == iso.day * 86400000

\* where a letter stands in the alphabet, whatever its case
letterRank(c) == CHOOSE i \in 1..Len(Lower) : Lower[i] = toLowerChar(c)

\* a lower-case letter sorts before its capital
caseRank(c) == IF toLowerChar(c) = c THEN 0 ELSE 1

\* the weight of a character at a comparison level
rankAt(c, level) == IF level = "letter" THEN letterRank(c) ELSE caseRank(c)

RECURSIVE compareAt(_, _, _)
\* the first difference of s and t at the level, a shorter prefix first
compareAt(s, t, level) ==
    IF s = <<>> THEN (IF t = <<>> THEN 0 ELSE -1)
    ELSE IF t = <<>> THEN 1
    ELSE IF rankAt(Head(s), level) < rankAt(Head(t), level) THEN -1
    ELSE IF rankAt(Head(s), level) > rankAt(Head(t), level) THEN 1
    ELSE compareAt(Tail(s), Tail(t), level)

\* String.prototype.localeCompare on words of letters: by the letters first,
\* by their case when the letters agree
localeCompare(s, t) ==
    LET byLetter == compareAt(s, t, "letter")
    IN  IF byLetter # 0 THEN byLetter ELSE compareAt(s, t, "case")

\* a.size || 0
OrZero(x) == IF x = None THEN 0 ELSE x[1]

\* a comparator that reverses the kinds too when the order is descending
compare_reversesKinds(a, b, by, order) ==
    LET compareValue ==
            IF a.type # b.type THEN (IF a.type = FOLDER THEN -1 ELSE 1)
            ELSE IF by = "name" THEN localeCompare(a.name, b.name)
            ELSE IF by = "type" THEN localeCompare(a.type, b.type)
            ELSE IF by = "size" THEN OrZero(a.size) - OrZero(b.size)
            ELSE getTime(a.modifiedAt) - getTime(b.modifiedAt)
    IN  IF order = "asc" THEN compareValue ELSE -compareValue

\* the comparator of sortedItems
compare(a, b, by, order) ==
    IF a.type # b.type THEN (IF a.type = FOLDER THEN -1 ELSE 1)
    ELSE LET compareValue ==
                 IF by = "name" THEN localeCompare(a.name, b.name)
                 ELSE IF by = "type" THEN localeCompare(a.type, b.type)
                 ELSE IF by = "size" THEN OrZero(a.size) - OrZero(b.size)
                 ELSE getTime(a.modifiedAt) - getTime(b.modifiedAt)
         IN  IF order = "asc" THEN compareValue ELSE -compareValue

RECURSIVE insert(_, _, _, _)
\* x put into the sorted list after every item it does not precede
insert(sorted, x, by, order) ==
    IF sorted = <<>> THEN <<x>>
    ELSE IF compare(x, Head(sorted), by, order) < 0 THEN <<x>> \o sorted
    ELSE <<Head(sorted)>> \o insert(Tail(sorted), x, by, order)

RECURSIVE sort(_, _, _)
\* Array.prototype.sort with the comparator: a stable sort
sort(items, by, order) ==
    IF items = <<>> THEN <<>>
    ELSE insert(sort(SubSeq(items, 1, Len(items) - 1), by, order),
                items[Len(items)], by, order)

\* [...props.items].sort(...): the copy is sorted, the prop is read
sortedItems(c) == sort(c.props.items, c.sortBy, c.sortOrder)

\* the component after the computed list is evaluated again
Rendered(c) == [c EXCEPT !.sortedItems = sortedItems(c)]

\* the elements of .contents-body the template renders, by class
Shown(c) ==
    LET isLoading == c.props.isLoading
        selected == c.props.selectedFolder # None
        n == Len(c.props.items)
    IN  (IF isLoading /\ selected
         THEN {"content-loading-overlay", "loading-spinner-small"} ELSE {})
        \cup
        (IF isLoading /\ ~selected THEN {"loading", "loading-spinner"}
         ELSE IF c.props.error # None THEN {"error"}
         ELSE IF ~selected THEN {"empty-state"}
         ELSE IF n = 0 /\ ~isLoading THEN {"empty-contents"}
         ELSE IF ~isLoading \/ n > 0 THEN {"contents-grid"}
         ELSE {})

\* the text of the element of that class, when it is rendered
TextOf(c, class) ==
    IF class \in Shown(c) /\ class = "loading"
    THEN Some("Loading contents...") ELSE None

\* the items a folder's contents are drawn from
ListedItems ==
    { FileSystemItem(1, <<"b">>, FOLDER, None, 2),
      FileSystemItem(2, <<"A">>, FOLDER, None, 1),
      FileSystemItem(3, <<"B">>, FILE, Some(2048), 1),
      FileSystemItem(4, <<"a","b">>, FILE, None, 3) }

RECURSIVE ListsUpTo(_, _)
\* the lists of n items at most
ListsUpTo(n, universe) ==
    IF n = 0 THEN {<<>>}
    ELSE LET shorter == ListsUpTo(n - 1, universe)
         IN  shorter \cup { Append(l, x) : l \in shorter, x \in universe }

\* the props the parent passes
ContentsProps(n) ==
    [items : ListsUpTo(n, ListedItems),
     selectedFolder : {None, Some(FileSystemItem(9, <<"d">>, FOLDER, None, 1))},
     isLoading : BOOLEAN,
     error : {None, Some("Failed to load contents")}]

IsContents == unit.op = "FolderContents"

\* mount(FolderContents, { props })
Mount(props) ==
    /\ NoUnit
    /\ unit' = Rendered([op |-> "FolderContents", props |-> props,
                         viewMode |-> "grid", sortBy |-> "name",
                         sortOrder |-> "asc", sortedItems |-> <<>>])
    /\ UNCHANGED <<svcVars, otherVars>>

\* the parent changes isLoading
SetIsLoading ==
    /\ IsContents
    /\ unit' = Rendered([unit EXCEPT !.props.isLoading = ~@])
    /\ UNCHANGED <<svcVars, otherVars>>

\* the sort select is changed (v-model="sortBy")
SelectSort(by) ==
    /\ IsContents
    /\ "contents-grid" \in Shown(unit)
    /\ unit' = Rendered([unit EXCEPT !.sortBy = by])
    /\ UNCHANGED <<svcVars, otherVars>>

toggleSortOrder ==
    /\ IsContents
    /\ "contents-grid" \in Shown(unit)
    /\ unit' = Rendered([unit EXCEPT
                         !.sortOrder = IF @ = "asc" THEN "desc" ELSE "asc"])
    /\ UNCHANGED <<svcVars, otherVars>>

NextContents ==
    \/ NoUnit /\ \E props \in ContentsProps(MaxListed) : Mount(props)
    \/ SetIsLoading
    \/ \E by \in {"name", "type", "size", "modified"} : SelectSort(by)
    \/ toggleSortOrder
    \/ UnitReturn

SpecContents == InitUnit /\ [][NextContents]_vars

----------------------------------------------------------------------------
(* The frontend composable useFileExplorer *)

\* most requests the composable sends to the API in one run
MaxRequests == 4

\* the folders the user can select
ExplorerFolders == {toString(1), toString(2)}

\* what apiService.getFolderContents(folderId) answers when it succeeds
Contents(folderId) ==
    << FileSystemItem(folderId \o <<"-">> \o toString(1), <<"a">>, FILE,
                      Some(1024), 1) >>

\* what apiService.getAllFolders() answers when it succeeds
AllFolders ==
    << FileSystemItem(toString(1), <<"a">>, FOLDER, None, 1),
       FileSystemItem(toString(2), <<"b">>, FOLDER, None, 1) >>

\* the state of useFileExplorer() as created; promises lists the promises
\* of selectFolder with their requests, sent counts every request
useFileExplorer ==
    [mounted |-> TRUE,
     allFolders |-> <<>>,
     selectedFolderId |-> None,
     folderContents |-> <<>>,
     isLoadingTree |-> FALSE,
     isLoadingContents |-> FALSE,
     error |-> None,
     currentLoadingPromise |-> None,
     promises |-> <<>>,
     treeRequests |-> 0,
     sent |-> 0,
     last |-> [op |-> "none"]]

\* the promises whose getFolderContents request is in flight
InFlight(e) == { p \in 1..Len(e.promises) : e.promises[p].state = "pending" }

\* those of them that load the folder
InFlightFor(e, folderId) ==
    { p \in InFlight(e) : e.promises[p].folderId = folderId }

\* selectFolder(folderId), up to the await of the request
selectFolder(folderId) ==
    /\ explorer.mounted
    /\ IF /\ explorer.currentLoadingPromise # None
          /\ explorer.selectedFolderId = Some(folderId)
       THEN explorer' =
                [explorer EXCEPT
                    !.last = [op |-> "selectFolder", folderId |-> folderId,
                              inFlightBefore |-> InFlightFor(explorer, folderId),
                              requested |-> FALSE,
                              returned |-> explorer.currentLoadingPromise]]
       ELSE /\ explorer.sent < MaxRequests
            /\ LET p == Len(explorer.promises) + 1
               IN  explorer' =
                       [explorer EXCEPT
                           !.selectedFolderId = Some(folderId),
                           !.isLoadingContents = TRUE,
                           !.error = None,
                           !.promises = Append(@, [folderId |-> folderId,
                                                   state |-> "pending"]),
                           !.sent = @ + 1,
                           !.currentLoadingPromise = Some(p),
                           !.last = [op |-> "selectFolder",
                                     folderId |-> folderId,
                                     inFlightBefore |->
                                         InFlightFor(explorer, folderId),
                                     requested |-> TRUE,
                                     returned |-> Some(p)]]
    /\ UNCHANGED <<svcVars, unit, engine, inflight, table, fcall, fileTable>>

\* the request of promise p is answered: the rest of the try block, or the
\* catch block, and the finally block
getFolderContents_settles(p, ok) ==
    /\ explorer.mounted
    /\ p \in InFlight(explorer)
    /\ explorer' =
           [explorer EXCEPT
               !.folderContents =
                   IF ok THEN Contents(explorer.promises[p].folderId) ELSE <<>>,
               !.error =
                   IF ok THEN @ ELSE Some("Failed to load folder contents"),
               !.promises[p].state = IF ok THEN "fulfilled" ELSE "rejected",
               !.isLoadingContents = FALSE,
               !.currentLoadingPromise = None,
               !.last = [op |-> "getFolderContents", promise |-> p]]
    /\ UNCHANGED <<svcVars, unit, engine, inflight, table, fcall, fileTable>>

\* loadAllFolders(), up to the await of the request
loadAllFolders ==
    /\ explorer.mounted
    /\ explorer.sent < MaxRequests
    /\ explorer' = [explorer EXCEPT !.isLoadingTree = TRUE,
                                    !.error = None,
                                    !.treeRequests = @ + 1,
                                    !.sent = @ + 1,
                                    !.last = [op |-> "loadAllFolders"]]
    /\ UNCHANGED <<svcVars, unit, engine, inflight, table, fcall, fileTable>>

\* a getAllFolders request is answered
getAllFolders_settles(ok) ==
    /\ explorer.mounted
    /\ explorer.treeRequests > 0
    /\ explorer' =
           [explorer EXCEPT
               !.allFolders = IF ok THEN AllFolders ELSE @,
               !.error = IF ok THEN @ ELSE Some("Failed to load folders"),
               !.isLoadingTree = FALSE,
               !.treeRequests = @ - 1,
               !.last = [op |-> "getAllFolders"]]
    /\ UNCHANGED <<svcVars, unit, engine, inflight, table, fcall, fileTable>>

clearSelection ==
    /\ explorer.mounted
    /\ explorer.selectedFolderId # None
    /\ explorer' = [explorer EXCEPT !.selectedFolderId = None,
                                    !.folderContents = <<>>,
                                    !.last = [op |-> "clearSelection"]]
    /\ UNCHANGED <<svcVars, unit, engine, inflight, table, fcall, fileTable>>

InitExplorer ==
    /\ folders = <<>>
    /\ files = <<>>
    /\ engine = "SearchEngine"
    /\ Idle
    /\ NoUnit
    /\ inflight = [c \in {} |-> c]
    /\ table = <<>>
    /\ NoFolderCall
    /\ fileTable = <<>>
    /\ explorer = useFileExplorer

NextExplorer ==
    \/ \E folderId \in ExplorerFolders : selectFolder(folderId)
    \/ \E p \in 1..MaxRequests, ok \in BOOLEAN :
           getFolderContents_settles(p, ok)
    \/ loadAllFolders
    \/ \E ok \in BOOLEAN : getAllFolders_settles(ok)
    \/ clearSelection

SpecExplorer == InitExplorer /\ [][NextExplorer]_vars

----------------------------------------------------------------------------
(* SearchController: GET /api/v1/search *)

QUERY_REQUIRED == <<"S","e","a","r","c","h"," ","q","u","e","r","y"," ","i","s"," ","r","e","q","u","i","r","e","d"," ","a","n","d"," ","c","a","n","n","o","t"," ","b","e"," ","e","m","p","t","y">>

\* the characters String.prototype.trim removes
WhiteSpace == {" ", "\t", "\n"}

\* a trim that removes nothing
trim_nothing(s) == s

RECURSIVE trimStart(_)
trimStart(s) ==
    IF s # <<>> /\ Head(s) \in WhiteSpace THEN trimStart(Tail(s)) ELSE s

RECURSIVE trimEnd(_)
trimEnd(s) ==
    IF s # <<>> /\ s[Len(s)] \in WhiteSpace
    THEN trimEnd(SubSeq(s, 1, Len(s) - 1)) ELSE s

\* String.prototype.trim
trim(s) == trimEnd(trimStart(s))

\* query.files !== 'false'
NotFalse(param) == param # Some(<<"f","a","l","s","e">>)

\* the query strings of the requests
GetRequests ==
    LET flags == {None, Some(<<"t","r","u","e">>), Some(<<"f","a","l","s","e">>)}
    IN  [q : {None, Some(<<>>), Some(<<" ">>), Some(<<" ","\t">>),
              Some(<<"D","O","C">>), Some(<<" ","D","o","c"," ">>)},
         files : flags, folders : flags, path : flags]

\* the handler of GET /, up to the await of searchService.search
Get(query) ==
    LET searchQuery == query.q
        includeFiles == NotFalse(query.files)
        includeFolders == NotFalse(query.folders)
        searchInPath == NotFalse(query.path)
    IN  /\ pc = "idle"
        /\ IF searchQuery = None \/ searchQuery = Some(<<>>)
              \/ Len(trim(searchQuery[1])) = 0
           THEN /\ call' = [entry |-> "GET /", request |-> query]
                /\ result' = Some(FailureResponse(QUERY_REQUIRED))
                /\ pc' = "done"
                /\ UNCHANGED <<slots, pending, getFoldersCalls, getFilesCalls>>
           ELSE /\ call' = [entry |-> "GET /", request |-> query,
                            query |-> searchQuery[1],
                            options |-> [includeFiles |-> Some(includeFiles),
                                         includeFolders |-> Some(includeFolders),
                                         searchInPath |-> Some(searchInPath)]]
                /\ getFoldersCalls' = IF includeFolders THEN 1 ELSE 0
                /\ getFilesCalls' = IF includeFiles THEN 1 ELSE 0
                /\ pending' = (IF includeFolders THEN {"getFolders"} ELSE {})
                                  \cup (IF includeFiles THEN {"getFiles"} ELSE {})
                /\ slots' = << IF includeFolders THEN None ELSE Some(<<>>),
                               IF includeFiles THEN None ELSE Some(<<>>) >>
                /\ pc' = "awaiting"
                /\ UNCHANGED result
        /\ UNCHANGED <<folders, files, rejection, settled, advancedCalls,
                       unit, otherVars>>

\* the queries handed to SearchService.search without the handler
BlankQueries == {<<>>, <<" ">>}

NextGet ==
    \/ pc = "idle" /\ \E query \in GetRequests : Get(query)
    \/ pc = "idle" /\ \E q \in BlankQueries, o \in Options : Search(q, o)
    \/ GetFoldersResolves
    \/ GetFilesResolves
    \/ GetFoldersRejects
    \/ GetFilesRejects
    \/ Settle
    \/ NextCall

SpecGet == Init /\ [][NextGet]_vars

----------------------------------------------------------------------------
(* The folder tree: FolderService.getFolderTree step by step, and the
   buildFolderTree of useFileExplorer *)

\* every folder is listed at the top level, too
filterChildren_allAtTheTop(fs, parentId) ==
    LET IsChild(folder) == folder.parentId = parentId
    IN  IF parentId = None THEN fs ELSE SelectSeq(fs, IsChild)

\* folders.filter(folder => folder.parentId === parentId)
filterChildren(fs, parentId) ==
    LET IsChild(folder) == folder.parentId = parentId
    IN  SelectSeq(fs, IsChild)

\* an activation of buildFolderTree(folders, parentId): the children found
\* and the one the map is about to visit
Activation(fs, parentId) ==
    [parentId |-> parentId, children |-> filterChildren(fs, parentId),
     next |-> 1]

\* getFolderTree() on the list the repository returned
getFolderTree_start(fs) ==
    /\ NoUnit
    /\ unit' = [op |-> "getFolderTree", folders |-> fs,
                stack |-> <<Activation(fs, None)>>, calls |-> 1,
                mapped |-> <<>>, done |-> FALSE]
    /\ UNCHANGED <<svcVars, otherVars>>

\* one step of the map of the innermost activation: it visits its next
\* child and calls buildFolderTree for it, or returns
buildFolderTree_step ==
    /\ unit.op = "getFolderTree"
    /\ ~unit.done
    /\ unit.calls <= MaxFolders + 2
    /\ LET depth == Len(unit.stack)
           top == unit.stack[depth]
       IN  IF top.next <= Len(top.children)
           THEN LET folder == top.children[top.next]
                IN  unit' = [unit EXCEPT
                                !.stack = Append([@ EXCEPT ![depth].next = @ + 1],
                                                 Activation(unit.folders,
                                                            Some(folder.id))),
                                !.calls = @ + 1,
                                !.mapped = Append(@, folder.id)]
           ELSE unit' = [unit EXCEPT
                            !.stack = SubSeq(@, 1, depth - 1),
                            !.done = (depth = 1)]
    /\ UNCHANGED <<svcVars, otherVars>>

\* GET /api/v1/folders: a row as the frontend receives it
formatFolder(folder) ==
    [id |-> toString(folder.id),
     name |-> folder.name,
     type |-> FOLDER,
     parentId |-> IF folder.parentId = None THEN None
                  ELSE Some(toString(folder.parentId[1])),
     path |-> folder.path,
     modifiedAt |-> [day |-> folder.updatedAt],
     createdAt |-> [day |-> folder.createdAt]]

\* folders.map(...)
formattedFolders(fs) == [i \in 1..Len(fs) |-> formatFolder(fs[i])]

\* the keys of folderMap after the first forEach
folderMap(items) ==
    { items[i].id : i \in { k \in 1..Len(items) : items[k].type = FOLDER } }

\* a parent counts only when it was listed before its child
hasParent_listedBefore(items, k) ==
    /\ items[k].parentId # None
    /\ items[k].parentId[1] # <<>>
    /\ items[k].parentId[1] \in folderMap(SubSeq(items, 1, k - 1))

\* folder.parentId && folderMap.has(folder.parentId)
hasParent(items, k) ==
    /\ items[k].parentId # None
    /\ items[k].parentId[1] # <<>>
    /\ items[k].parentId[1] \in folderMap(items)

RECURSIVE link(_, _, _)
\* the second forEach from the k-th item on: each folder is pushed onto its
\* parent's children or onto rootFolders
link(items, k, tree) ==
    IF k > Len(items) THEN tree
    ELSE IF items[k].type # FOLDER THEN link(items, k + 1, tree)
    ELSE IF hasParent(items, k)
    THEN link(items, k + 1,
              [tree EXCEPT
                  !.nodes[items[k].parentId[1]].children = Append(@, items[k].id),
                  !.nodes[items[k].parentId[1]].hasSubfolders = TRUE])
    ELSE link(items, k + 1,
              [tree EXCEPT !.rootFolders = Append(@, items[k].id)])

\* buildFolderTree of useFileExplorer: the root nodes and every node of
\* folderMap, a node naming its children by their keys
useFileExplorer_buildFolderTree(items) ==
    link(items, 1,
         [rootFolders |-> <<>>,
          nodes |-> [id \in folderMap(items) |->
                        [children |-> <<>>, isExpanded |-> FALSE,
                         hasSubfolders |-> FALSE]]])

\* both trees of one list
BuildTrees(fs) ==
    /\ NoUnit
    /\ unit' = [op |-> "buildFolderTree", folders |-> fs,
                backend |-> buildFolderTree(fs, None),
                frontend |-> useFileExplorer_buildFolderTree(formattedFolders(fs))]
    /\ UNCHANGED <<svcVars, otherVars>>

\* the lists of n folders at most, in the order of their ids or in the
\* reverse order, each parentId null, an id of the list or one beyond it
FolderLists(n) ==
    UNION { { FolderRows(p, parent, k) :
                p \in { [i \in 1..k |-> i], [i \in 1..k |-> k + 1 - i] },
                parent \in [1..k -> {None} \cup { Some(j) : j \in 1..(k + 1) }] }
            : k \in 0..n }

NextTree ==
    \/ NoUnit /\ \E fs \in FolderLists(MaxFolders) : getFolderTree_start(fs)
    \/ buildFolderTree_step
    \/ NoUnit /\ \E fs \in FolderLists(MaxFolders) : BuildTrees(fs)
    \/ UnitReturn

SpecTree == InitUnit /\ [][NextTree]_vars

----------------------------------------------------------------------------
(* Reference readings used by the properties *)

\* c and d are the same letter up to case, or the same character
SameLetter(c, d) ==
    \/ c = d
    \/ \E k \in 1..Len(Upper) : {c, d} = {Upper[k], Lower[k]}

\* t occurs in s as a substring when case is ignored
ContainsIgnoreCase(s, t) ==
    \E i \in 0..(Len(s) - Len(t)) :
        \A j \in 1..Len(t) : SameLetter(s[i + j], t[j])

\* what identifies a record in a result: its kind, name and path
Key(type, r) == <<type, r.name, r.path>>

ItemKeys(items) == { Key(items[i].type, items[i]) : i \in 1..Len(items) }

\* a service call (not a handler) has returned a result
Returned(entry) ==
    /\ pc = "done"
    /\ call.entry = entry
    /\ ~result[1].threw

----------------------------------------------------------------------------
(* C1 *)

\* the record matches the query of search(): by its name, or by its path
\* when searchInPath
QueryMatches(r, query, searchInPath) ==
    \/ ContainsIgnoreCase(r.name, query)
    \/ searchInPath /\ ContainsIgnoreCase(r.path, query)

\* the keys of the records search(query, options) is to return
SearchExpected(query, options) ==
    LET inPath == options.searchInPath # Some(FALSE)
    IN  (IF options.includeFolders # Some(FALSE)
         THEN { Key(FOLDER, r) : r \in { f \in Range(folders) :
                                          QueryMatches(f, query, inPath) } }
         ELSE {})
        \cup
        (IF options.includeFiles # Some(FALSE)
         THEN { Key(FILE, r) : r \in { f \in Range(files) :
                                        QueryMatches(f, query, inPath) } }
         ELSE {})

----------------------------------------------------------------------------
(* C2 *)

DOCUMENT == <<"d","o","c","u","m","e","n","t">>

\* C2: with the backend test fixture, search('document') with default
\* options returns exactly two items, the folder 'Documents' and the file
\* 'document.pdf', with totalCount 2 and query 'document'.
C2_FixtureSearchReturnsTwoItems ==
    ( /\ Returned("search")
      /\ folders = mockFolders
      /\ files = mockFiles
      /\ call.query = DOCUMENT
      /\ call.options = [includeFiles |-> None, includeFolders |-> None,
                         searchInPath |-> None] )
    => /\ Len(result[1].value.items) = 2
       /\ ItemKeys(result[1].value.items)
              = { Key(FOLDER, mockFolders[1]), Key(FILE, mockFiles[1]) }
       /\ result[1].value.totalCount = 2
       /\ result[1].value.query = DOCUMENT

----------------------------------------------------------------------------
(* C3 *)

\* the keys of the provider's records on which the criteria holds
CriteriaExpected(criteria) ==
    { Key(FOLDER, r) : r \in { f \in Range(folders) :
                                execute(criteria, SearchableFolder(f)) } }
        \cup
    { Key(FILE, r) : r \in { f \in Range(files) :
                              execute(criteria, SearchableFile(f)) } }

\* the folders whose name contains a and the files whose path contains b
FolderNameFilePathExpected(a, b) ==
    { Key(FOLDER, r) : r \in { f \in Range(folders) :
                                ContainsIgnoreCase(f.name, a) } }
        \cup
    { Key(FILE, r) : r \in { f \in Range(files) :
                              ContainsIgnoreCase(f.path, b) } }

\* C3: advancedSearch(criteria) evaluates the criteria over all folders and
\* all files of the provider and returns exactly the records on which
\* criteria.execute is true; for Or([And([Type(folder), Name(a)]),
\* And([Type(file), Path(b)])]) that is the union of the folders whose name
\* contains a and the files whose path contains b.
C3_AdvancedSearchReturnsExactlyTheMatches ==
    Returned("advancedSearch") =>
        LET items == result[1].value.items
        IN  /\ getFoldersCalls = 1
            /\ getFilesCalls = 1
            /\ ItemKeys(items) = CriteriaExpected(call.criteria)
            /\ Len(items) = Cardinality(CriteriaExpected(call.criteria))
            /\ \A a \in UnionTerms, b \in UnionTerms :
                   call.criteria = FolderNameOrFilePath(a, b) =>
                       ItemKeys(items) = FolderNameFilePathExpected(a, b)

\* an advanced search for folders named like one term or files pathed under
\* another has returned a folder and a file, and not everything
C3_Witness ==
    /\ Returned("advancedSearch")
    /\ \E a \in UnionTerms, b \in UnionTerms :
           call.criteria = FolderNameOrFilePath(a, b)
    /\ \E i, j \in 1..Len(result[1].value.items) :
           /\ result[1].value.items[i].type = FOLDER
           /\ result[1].value.items[j].type = FILE
    /\ Len(result[1].value.items) < Len(folders) + Len(files)

----------------------------------------------------------------------------
(* C4 *)

\* the position of a result item's record in the provider's list
Position(item, records) ==
    CHOOSE k \in 1..Len(records) :
        records[k].name = item.name /\ records[k].path = item.path

\* folders before files, each kind in the provider's order
InProviderOrder(items) ==
    \A i, j \in 1..Len(items) :
        i < j =>
            /\ items[i].type = FILE => items[j].type = FILE
            /\ (items[i].type = FOLDER /\ items[j].type = FOLDER) =>
                   Position(items[i], folders) < Position(items[j], folders)
            /\ (items[i].type = FILE /\ items[j].type = FILE) =>
                   Position(items[i], files) < Position(items[j], files)

\* what the call returns when its fetches settle in the order written
InWrittenOrder ==
    IF call.entry = "search"
    THEN search_resume(
             IF call.options.includeFolders # Some(FALSE) THEN folders ELSE <<>>,
             IF call.options.includeFiles # Some(FALSE) THEN files ELSE <<>>,
             call.query, call.options)
    ELSE advancedSearch_resume(folders, files, call.criteria)

\* C4: in the result of search and of advancedSearch every folder item
\* precedes every file item, the folders in the order getFolders returned
\* them and the files in the order getFiles returned them, whichever fetch
\* completes first: the value of getFolders is only ever taken as the
\* folders and the value of getFiles as the files, and the result is the one
\* of the written order.
C4_FoldersBeforeFilesWhateverTheCompletionOrder ==
    /\ (slots[1] # None /\ getFoldersCalls = 1) => slots[1] = Some(folders)
    /\ (slots[2] # None /\ getFilesCalls = 1) => slots[2] = Some(files)
    /\ (Returned("search") \/ Returned("advancedSearch")) =>
           /\ InProviderOrder(result[1].value.items)
           /\ result[1].value = InWrittenOrder

\* a call whose getFiles completed before its getFolders has returned
\* folders and files
C4_Witness ==
    /\ Returned("search") \/ Returned("advancedSearch")
    /\ settled = <<"getFiles", "getFolders">>
    /\ \E i, j \in 1..Len(result[1].value.items) :
           /\ i < j
           /\ result[1].value.items[i].type = FOLDER
           /\ result[1].value.items[j].type = FILE
    /\ Len(result[1].value.items) >= 3

----------------------------------------------------------------------------
(* C5 *)

\* the k-th smallest element of a set of indices
Nth(indices, k) ==
    CHOOSE i \in indices : Cardinality({ j \in indices : j <= i }) = k

\* C5: SearchEngine.search(items, criteria) returns the subsequence of items
\* made of exactly the items on which criteria.execute is true, in the order
\* of items; nothing is added, dropped, duplicated or reordered, also when
\* items repeats an item.
C5_EngineReturnsTheMatchingSubsequence ==
    unit.op = "search" =>
        LET kept == { i \in 1..Len(unit.items) :
                        execute(unit.criteria, unit.items[i]) }
        IN  /\ Len(unit.out) = Cardinality(kept)
            /\ \A k \in 1..Len(unit.out) :
                   unit.out[k] = unit.items[Nth(kept, k)]

\* the engine was given a list that repeats a matching item and returned it
\* twice
C5_Witness ==
    /\ unit.op = "search"
    /\ Len(unit.items) >= 2
    /\ unit.items[1] = unit.items[2]
    /\ Len(unit.out) = 2
    /\ unit.out[1] = unit.out[2]
    /\ unit.criteria.class = "And"

----------------------------------------------------------------------------
(* C6 *)

\* C6: And(cs).execute(x) is true iff every child's execute(x) is true, and
\* Or(cs).execute(x) is true iff some child's execute(x) is true, for
\* children of any number and nesting; And([]) is true and Or([]) is false.
C6_AndIsEveryOrIsSome ==
    unit.op = "execute" =>
        LET c == unit.criteria
        IN  /\ c.class = "And" =>
                   /\ unit.out = (\A i \in 1..Len(c.criteria) :
                                      execute(c.criteria[i], unit.item))
                   /\ c.criteria = <<>> => unit.out = TRUE
            /\ c.class = "Or" =>
                   /\ unit.out = (\E i \in 1..Len(c.criteria) :
                                      execute(c.criteria[i], unit.item))
                   /\ c.criteria = <<>> => unit.out = FALSE

\* a conjunction of a true child and a false composite child was evaluated
C6_Witness ==
    /\ unit.op = "execute"
    /\ unit.criteria.class = "And"
    /\ Len(unit.criteria.criteria) = 2
    /\ execute(unit.criteria.criteria[1], unit.item)
    /\ unit.criteria.criteria[2].class = "Or"
    /\ ~execute(unit.criteria.criteria[2], unit.item)
    /\ unit.out = FALSE

----------------------------------------------------------------------------
(* C7 *)

\* C7: NameSearchCriteria(term).execute(x) is true iff x.name contains term
\* when case is ignored, PathSearchCriteria(term) is the same test on x.path,
\* and for the empty term both are true for every item.
C7_NameAndPathContainIgnoringCase ==
    unit.op = "execute" =>
        LET c == unit.criteria
        IN  /\ c.class = "Name" =>
                   /\ unit.out = ContainsIgnoreCase(unit.item.record.name, c.query)
                   /\ c.query = <<>> => unit.out = TRUE
            /\ c.class = "Path" =>
                   /\ unit.out = ContainsIgnoreCase(unit.item.record.path, c.query)
                   /\ c.query = <<>> => unit.out = TRUE

\* a name criteria matched a name that differs from the term in case only,
\* on an item whose path does not contain the term
C7_Witness ==
    /\ unit.op = "execute"
    /\ unit.criteria.class = "Name"
    /\ Len(unit.criteria.query) = 2
    /\ unit.out = TRUE
    /\ ~includes(unit.item.record.name, unit.criteria.query)
    /\ ~ContainsIgnoreCase(unit.item.record.path, unit.criteria.query)

----------------------------------------------------------------------------
(* C8 *)

KnownTags == {"name", "path", "type", "and", "or"}

RECURSIVE NodesIn(_)
\* the nodes of a criteria list: its elements and, through the children of
\* and/or nodes, the nodes nested in them
NodesIn(list) ==
    UNION { {list[i]}
              \cup (IF list[i].type \in {"and", "or"} /\ list[i].children # None
                    THEN NodesIn(list[i].children[1]) ELSE {}) :
            i \in 1..Len(list) }

UnknownTags(list) == { n.type : n \in NodesIn(list) } \ KnownTags

\* some and/or node of the list carries no children list
HasChildless(list) ==
    \E n \in NodesIn(list) : n.type \in {"and", "or"} /\ n.children = None

\* a POST /advanced whose body holds a node with an unknown tag has responded
UnknownTagResponded ==
    /\ pc = "done"
    /\ call.entry = "POST /advanced"
    /\ UnknownTags(call.body) # {}

\* the build failed before anything else happened: no criteria, no
\* advancedSearch, no provider query, a failure response
BuildAborted ==
    /\ "criteria" \notin DOMAIN call
    /\ advancedCalls = 0
    /\ getFoldersCalls = 0
    /\ getFilesCalls = 0
    /\ settled = <<>>
    /\ result[1].success = FALSE

----------------------------------------------------------------------------
(* C9 *)

\* C9: buildSearchCriteria on a one-element list [c] yields the criteria
\* built from c alone, and on a list of two or more elements a criteria that
\* evaluates on every item like the one built from the single node
\* {type: 'and', children: the list}.
C9_ListIsBuiltAsAnAndNode ==
    unit.op = "build" =>
        LET data == unit.criteriaData
            asNode == buildCriteria(Node("and", None, Some(data)))
        IN  /\ Len(data) = 1 => unit.out = buildCriteria(data[1])
            /\ Len(data) >= 2 =>
                   /\ unit.out.threw = asNode.threw
                   /\ unit.out.threw => unit.out.error = asNode.error
                   /\ ~unit.out.threw =>
                          \A x \in ItemUniverse :
                              execute(unit.out.value, x) = execute(asNode.value, x)

\* a list of two criteria was built into a criteria that holds on some items
\* and fails on others, though one of the two holds on every item
C9_Witness ==
    /\ unit.op = "build"
    /\ Len(unit.criteriaData) = 2
    /\ ~unit.out.threw
    /\ \E x \in ItemUniverse : execute(unit.out.value, x)
    /\ \E x \in ItemUniverse : ~execute(unit.out.value, x)
    /\ \E i \in 1..2 : unit.criteriaData[i] = Node("and", None, Some(<<>>))

----------------------------------------------------------------------------
(* C10 *)

RECURSIVE WellFormed(_)
\* a leaf with a value, or an and/or node with a list of well-formed children
WellFormed(n) ==
    \/ n.type \in {"name", "path", "type"} /\ n.value # None
    \/ /\ n.type \in {"and", "or"}
       /\ n.children # None
       /\ \A i \in 1..Len(n.children[1]) : WellFormed(n.children[1][i])

RECURSIVE Reading(_, _)
\* the reference reading of a well-formed node on an item
Reading(n, x) ==
    CASE n.type = "name" -> execute(NameSearchCriteria(n.value[1]), x)
      [] n.type = "path" -> execute(PathSearchCriteria(n.value[1]), x)
      [] n.type = "type" -> execute(TypeSearchCriteria(n.value[1]), x)
      [] n.type = "and" ->
            \A i \in 1..Len(n.children[1]) : Reading(n.children[1][i], x)
      [] n.type = "or" ->
            \E i \in 1..Len(n.children[1]) : Reading(n.children[1][i], x)

\* C10: for every well-formed criteria node the criteria built from it
\* evaluates on every item to the reference reading of the node (name ->
\* NameSearchCriteria(value), path -> PathSearchCriteria(value), type ->
\* TypeSearchCriteria(value), and -> all children, or -> some child), with
\* the children kept in their given order.
C10_BuiltCriteriaFollowsTheNode ==
    (unit.op = "build" /\ Len(unit.criteriaData) = 1
        /\ WellFormed(unit.criteriaData[1])) =>
        LET n == unit.criteriaData[1]
        IN  /\ ~unit.out.threw
            /\ \A x \in ItemUniverse :
                   execute(unit.out.value, x) = Reading(n, x)
            /\ n.type \in {"and", "or"} =>
                   /\ Len(unit.out.value.criteria) = Len(n.children[1])
                   /\ \A i \in 1..Len(n.children[1]) :
                          Return(unit.out.value.criteria[i])
                              = buildCriteria(n.children[1][i])

\* an or node over an and node over a path leaf was built, and the built
\* criteria holds on some items and fails on others
C10_Witness ==
    /\ unit.op = "build"
    /\ Len(unit.criteriaData) = 1
    /\ WellFormed(unit.criteriaData[1])
    /\ unit.criteriaData[1].type = "or"
    /\ Len(unit.criteriaData[1].children[1]) = 1
    /\ unit.criteriaData[1].children[1][1].type = "and"
    /\ Len(unit.criteriaData[1].children[1][1].children[1]) = 1
    /\ unit.criteriaData[1].children[1][1].children[1][1].type = "path"
    /\ \E x \in ItemUniverse : execute(unit.out.value, x)
    /\ \E x \in ItemUniverse : ~execute(unit.out.value, x)

----------------------------------------------------------------------------
(* C11 *)

\* a service call has returned a result, whichever engine is injected
ServiceReturned == Returned("search") \/ Returned("advancedSearch")

\* C11: in every result search() or advancedSearch() returns, totalCount is
\* the length of items, also when an engine that truncates its matches has
\* been injected into the service.
C11_TotalCountIsTheNumberOfItems ==
    ServiceReturned =>
        result[1].value.totalCount = Len(result[1].value.items)

\* the injected engine has cut several matches down to one, out of more
\* candidates than that
C11_Witness ==
    /\ engine = "LimitedSearchEngine"
    /\ Returned("search")
    /\ Cardinality(SearchExpected(call.query, call.options)) >= 2
    /\ Len(result[1].value.items) = 1
    /\ result[1].value.totalCount = 1

----------------------------------------------------------------------------
(* C12 *)

\* C12: the result of search(query, options) carries the query string it
\* was given, character for character, and the result of advancedSearch
\* carries the label 'Advanced Search'.
C12_ResultEchoesTheQuery ==
    /\ Returned("search") => result[1].value.query = call.query
    /\ Returned("advancedSearch") =>
           result[1].value.query
               = <<"A","d","v","a","n","c","e","d"," ",
                   "S","e","a","r","c","h">>

\* a search for a query with capitals and blanks around it has returned
C12_Witness ==
    /\ Returned("search")
    /\ call.query = <<" ","D","o","c"," ">>
    /\ result[1].value.query[1] = " "
    /\ result[1].value.query[2] = "D"

----------------------------------------------------------------------------
(* C13 *)

\* how often method m has settled in the call
Settlements(m) == Cardinality({ k \in 1..Len(settled) : settled[k] = m })

\* C13: during search(query, options) getFolders is invoked exactly when
\* includeFolders is not false and getFiles exactly when includeFiles is not
\* false; advancedSearch invokes both.
C13_FetchesFollowTheIncludeOptions ==
    /\ call.entry = "search" =>
           /\ getFoldersCalls
                  = (IF call.options.includeFolders = Some(FALSE) THEN 0 ELSE 1)
           /\ getFilesCalls
                  = (IF call.options.includeFiles = Some(FALSE) THEN 0 ELSE 1)
           /\ call.options.includeFolders = Some(FALSE) =>
                  "getFolders" \notin pending \cup Range(settled)
           /\ call.options.includeFiles = Some(FALSE) =>
                  "getFiles" \notin pending \cup Range(settled)
    /\ (call.entry = "advancedSearch" \/ advancedCalls = 1) =>
           /\ getFoldersCalls = 1
           /\ getFilesCalls = 1
           /\ pending \cup Range(settled) = {"getFolders", "getFiles"}

\* a search without folders has returned files after fetching files only
C13_Witness ==
    /\ Returned("search")
    /\ call.options.includeFolders = Some(FALSE)
    /\ getFoldersCalls = 0
    /\ getFilesCalls = 1
    /\ settled = <<"getFiles">>
    /\ Len(folders) > 0
    /\ Len(result[1].value.items) > 0

----------------------------------------------------------------------------
(* C14 *)

\* the fetch of method m has settled without a value
Rejected(m) ==
    /\ m \in Range(settled)
    /\ slots[IF m = "getFolders" THEN 1 ELSE 2] = None

\* the fetch that rejected first
FirstRejected ==
    settled[CHOOSE k \in 1..Len(settled) :
                /\ Rejected(settled[k])
                /\ \A j \in 1..(k - 1) : ~Rejected(settled[j])]

\* C14: when a provider fetch rejects, the service call rejects with that
\* failure and returns no result built from the other fetch, the handler
\* answers with that failure, and no provider method is invoked or settles
\* more than once in a call.
C14_ARejectedFetchRejectsTheCall ==
    /\ getFoldersCalls <= 1
    /\ getFilesCalls <= 1
    /\ \A m \in {"getFolders", "getFiles"} : Settlements(m) <= 1
    /\ ( /\ pc = "done"
         /\ call.entry \in {"search", "advancedSearch"}
         /\ \E m \in {"getFolders", "getFiles"} : Rejected(m) )
       => /\ result[1].threw
          /\ result[1].error = ProviderFailure(FirstRejected)
    /\ ( /\ pc = "done"
         /\ call.entry = "POST /advanced"
         /\ \E m \in {"getFolders", "getFiles"} : Rejected(m) )
       => result[1] = FailureResponse(ProviderFailure(FirstRejected))

\* the files arrived, then the folders fetch failed, and the search threw
\* that failure
C14_Witness ==
    /\ pc = "done"
    /\ call.entry = "search"
    /\ settled = <<"getFiles", "getFolders">>
    /\ slots[2] = Some(files)
    /\ Len(files) > 0
    /\ Rejected("getFolders")
    /\ result[1].threw
    /\ result[1].error = ProviderFailure("getFolders")

----------------------------------------------------------------------------
(* C15 *)

\* the items that wrap a record of the same kind with the same id, name and
\* path, and any other field changed
Variants(item) ==
    IF item.class = "SearchableFolder"
    THEN { SearchableFolder([item.record EXCEPT !.parentId = p,
                                                !.createdAt = c,
                                                !.updatedAt = u]) :
             p \in {None, Some(9)}, c \in {0, 5}, u \in {0, 6} }
    ELSE { SearchableFile([item.record EXCEPT !.folderId = p, !.size = z,
                                              !.extension = e,
                                              !.createdAt = c]) :
             p \in {1, 9}, z \in {None, Some(0), Some(7)},
             e \in {None, Some(<<"t","x","t">>)}, c \in {0, 5} }

\* a criteria gives the same answer on every variant of the item
C15_CriteriaSeeOnlyTheFourFacts ==
    unit.op = "execute" =>
        \A y \in Variants(unit.item) : execute(unit.criteria, y) = unit.out

\* C15: a searchable item exposes to criteria only its id, name, path and
\* type: records of one kind with equal id, name and path that differ in
\* another field get the same execute result, and the wrapped record cannot
\* be read off the item (reading 'folder' off a SearchableFolder yields
\* undefined).
C15_ItemExposesOnlyItsFourFacts ==
    /\ C15_CriteriaSeeOnlyTheFourFacts
    /\ unit.op = "property" => unit.out = None

----------------------------------------------------------------------------
(* C16 *)

\* C16: every file item of a returned result carries the size of its file
\* record whenever the record has one, 0 included, and a folder item has no
\* size field.
C16_FileItemsCarryTheirSize ==
    ServiceReturned =>
        \A i \in 1..Len(result[1].value.items) :
            LET item == result[1].value.items[i]
            IN  /\ item.type = FILE =>
                       LET record == files[Position(item, files)]
                       IN  record.size # None => item.size = record.size
                /\ item.type = FOLDER => "size" \notin DOMAIN item

----------------------------------------------------------------------------
(* C17 *)

\* C17: searching is read-only: no step of search or advancedSearch changes
\* the records the provider holds, the engine the service uses or, while
\* the call is in progress, the call's query, options and criteria; and the
\* only provider operations invoked are getFolders and getFiles.
C17_SearchingChangesNothing ==
    [][ /\ folders' = folders
        /\ files' = files
        /\ engine' = engine
        /\ pc = "awaiting" => call' = call
        /\ pending' \cup Range(settled') \subseteq {"getFolders", "getFiles"}
      ]_vars

\* both fetches have resolved with the provider's records and the search
\* has returned some of them
C17_Witness ==
    /\ Returned("search")
    /\ Len(settled) = 2
    /\ slots = <<Some(folders), Some(files)>>
    /\ Len(folders) > 0
    /\ Len(files) > 0
    /\ Len(result[1].value.items) > 0

----------------------------------------------------------------------------
(* C18 *)

\* the first of call k's own fetches that failed, if any
OwnFailure(k) ==
    IF k.failed = <<>> THEN None ELSE Some(k.failed[1])

\* what call k yields when it is the only call of the service: the failure
\* of its own fetch, or the result over the provider's records
Alone(k) ==
    IF OwnFailure(k) # None THEN Throw(ProviderFailure(OwnFailure(k)[1]))
    ELSE IF k.call.entry = "search"
         THEN Return(search_resume(
                  IF k.call.options.includeFolders = Some(FALSE)
                  THEN <<>> ELSE folders,
                  IF k.call.options.includeFiles = Some(FALSE)
                  THEN <<>> ELSE files,
                  k.call.query, k.call.options))
         ELSE Return(advancedSearch_resume(folders, files, k.call.criteria))

\* C18: calls in flight together on one service share no state: however the
\* completions of their fetches interleave, each call yields what it yields
\* when it runs alone against the same provider data.
C18_CallsInFlightDoNotInterfere ==
    \A c \in Calls :
        inflight[c].pc = "done" => inflight[c].result = Some(Alone(inflight[c]))

\* a search without folders has returned while an advanced search was
\* awaiting its fetches, and the advanced search has returned after it
C18_Witness ==
    \E c, d \in Calls :
        /\ c # d
        /\ inflight[c].pc = "done"
        /\ inflight[d].pc = "done"
        /\ inflight[c].overlapped
        /\ inflight[c].call.entry = "search"
        /\ inflight[c].call.options.includeFolders = Some(FALSE)
        /\ inflight[d].call.entry = "advancedSearch"
        /\ ~inflight[c].result[1].threw
        /\ ~inflight[d].result[1].threw
        /\ Len(inflight[c].result[1].value.items) > 0
        /\ Len(inflight[d].result[1].value.items) > 0

----------------------------------------------------------------------------
(* C19 *)

RECURSIVE NodesOf(_)
\* every node of a forest
NodesOf(forest) ==
    UNION { {forest[i]} \cup NodesOf(forest[i].children) :
              i \in 1..Len(forest) }

\* nodes lists exactly the rows of the table whose parent is parentId, in
\* the order of the table, with each row's id, name, path and parentId
ListsTheRowsUnder(nodes, parentId) ==
    LET rows == { i \in 1..Len(table) : table[i].parentId = parentId }
    IN  /\ Len(nodes) = Cardinality(rows)
        /\ \A k \in 1..Len(nodes) :
               LET row == table[Nth(rows, k)]
               IN  /\ nodes[k].id = row.id
                   /\ nodes[k].name = row.name
                   /\ nodes[k].path = row.path
                   /\ nodes[k].parentId = row.parentId

\* C19: getFolderTree returns a forest whose roots are exactly the folders
\* with parentId null, in repository order, in which the children of each
\* node are exactly the folders whose parentId is the node's id, in
\* repository order, and hasChildren is true exactly when children is not
\* empty.
C19_TreeListsRootsAndChildrenInOrder ==
    fcall.op = "getFolderTree" =>
        LET forest == fcall.out.value
        IN  /\ ListsTheRowsUnder(forest, None)
            /\ \A node \in NodesOf(forest) :
                   /\ ListsTheRowsUnder(node.children, Some(node.id))
                   /\ node.hasChildren = (node.children # <<>>)

\* the tree of a table that returns a child of the one root before the root
\* and the younger child before the older
C19_Witness ==
    /\ fcall.op = "getFolderTree"
    /\ Len(table) = 3
    /\ table[1].parentId # None
    /\ Len(fcall.out.value) = 1
    /\ fcall.out.value[1].hasChildren
    /\ Len(fcall.out.value[1].children) = 2
    /\ fcall.out.value[1].children[1].id > fcall.out.value[1].children[2].id
    /\ ~fcall.out.value[1].children[1].hasChildren

----------------------------------------------------------------------------
(* C20 *)

\* the row of the table createFolder started from that has this id
RowBefore(id) ==
    { fcall.before[i] : i \in { j \in 1..Len(fcall.before) :
                                  fcall.before[j].id = id } }

----------------------------------------------------------------------------
(* C21 *)

\* the path of the row is its materialized ancestry
Materialized(row) ==
    IF row.parentId = None THEN row.path = row.name
    ELSE \A i \in 1..Len(table) :
             table[i].id = row.parentId[1] =>
                 row.path = table[i].path \o <<"/">> \o row.name

\* C21: after any sequence of createFolder, updateFolder and deleteFolder,
\* the stored path of every folder is its own name if it is a root and
\* otherwise its parent's current path, a slash and its own current name.
C21_PathIsTheMaterializedAncestry ==
    \A i \in 1..Len(table) : Materialized(table[i])

----------------------------------------------------------------------------
(* C22 *)

\* how often x occurs in the list
Occurrences(list, x) == Cardinality({ i \in 1..Len(list) : list[i] = x })

\* a does not come after b under the key, ascending
KeyAtMost(a, b, by) ==
    IF by = "name" THEN localeCompare(a.name, b.name) <= 0
    ELSE IF by = "size" THEN OrZero(a.size) <= OrZero(b.size)
    ELSE IF by = "modified" THEN a.modifiedAt.day <= b.modifiedAt.day
    ELSE TRUE

\* the displayed list is the items, folders first, each kind by the key
FoldersFirstByTheKey(c) ==
    LET items == c.props.items
        sorted == c.sortedItems
    IN  /\ Len(sorted) = Len(items)
        /\ \A x \in Range(items) \cup Range(sorted) :
               Occurrences(sorted, x) = Occurrences(items, x)
        /\ \A i, j \in 1..Len(sorted) :
               i < j =>
                   /\ sorted[i].type = FILE => sorted[j].type = FILE
                   /\ sorted[i].type = sorted[j].type =>
                          IF c.sortOrder = "asc"
                          THEN KeyAtMost(sorted[i], sorted[j], c.sortBy)
                          ELSE KeyAtMost(sorted[j], sorted[i], c.sortBy)

\* C22: for every items list, sortBy and sortOrder, sortedItems is a
\* permutation of the items prop in which every folder precedes every file
\* and, within the folders and within the files, the order follows the
\* chosen key, ascending or descending; no step of the component reorders
\* the items prop.
C22_SortedItemsAreFoldersFirstByTheKey ==
    [][ /\ unit'.op = "FolderContents" => FoldersFirstByTheKey(unit')
        /\ (IsContents /\ unit'.op = "FolderContents") =>
               unit'.props.items = unit.props.items ]_vars

\* files listed before folders and smallest first are shown folders first
\* and largest first
C22_Witness ==
    /\ IsContents
    /\ unit.sortBy = "size"
    /\ unit.sortOrder = "desc"
    /\ Len(unit.props.items) = 3
    /\ unit.props.items[1].type = FILE
    /\ unit.props.items[2].type = FILE
    /\ unit.props.items[3].type = FOLDER
    /\ OrZero(unit.props.items[1].size) < OrZero(unit.props.items[2].size)
    /\ unit.sortedItems = << unit.props.items[3], unit.props.items[2],
                             unit.props.items[1] >>

----------------------------------------------------------------------------
(* C23 *)

\* C23: whenever isLoading is true the component shows the '.loading'
\* element with the text 'Loading contents...' and the spinner, also when a
\* folder is selected and items are present.
C23_LoadingShowsTheLoadingState ==
    (IsContents /\ unit.props.isLoading) =>
        /\ "loading" \in Shown(unit)
        /\ TextOf(unit, "loading") = Some("Loading contents...")
        /\ "loading-spinner" \in Shown(unit)

----------------------------------------------------------------------------
(* C24 *)

\* C24: a selectFolder(F) made while a getFolderContents request for F is
\* in flight sends no further request and returns the promise of a request
\* for F that is in flight, whatever other folders were selected and
\* whichever of their requests were answered before.
C24_NoSecondRequestForAFolderBeingLoaded ==
    (/\ explorer.mounted
     /\ explorer.last.op = "selectFolder"
     /\ explorer.last.inFlightBefore # {}) =>
        /\ ~explorer.last.requested
        /\ explorer.last.returned # None
        /\ explorer.last.returned[1] \in explorer.last.inFlightBefore

----------------------------------------------------------------------------
(* C25 *)

\* q is absent, empty or made of white space only
Blank(q) == q = None \/ \A i \in 1..Len(q[1]) : q[1][i] \in WhiteSpace

----------------------------------------------------------------------------
(* C26 *)

\* the last promise made for the folder, 0 when there is none
LastPromiseFor(e, folderId) ==
    LET made == { p \in 1..Len(e.promises) : e.promises[p].folderId = folderId }
    IN  IF made = {} THEN 0 ELSE CHOOSE p \in made : \A q \in made : q <= p

\* C26: whenever no contents request is in flight and the last request for
\* the selected folder succeeded, folderContents is what was returned for
\* the selected folder.
C26_ContentsAreThoseOfTheSelectedFolder ==
    (/\ explorer.mounted
     /\ explorer.selectedFolderId # None
     /\ InFlight(explorer) = {}
     /\ LastPromiseFor(explorer, explorer.selectedFolderId[1]) # 0
     /\ explorer.promises[LastPromiseFor(explorer,
                              explorer.selectedFolderId[1])].state = "fulfilled")
        => explorer.folderContents = Contents(explorer.selectedFolderId[1])

----------------------------------------------------------------------------
(* C27 *)

\* C27: isLoadingContents is true exactly in the states in which a
\* getFolderContents request is in flight, and only loadAllFolders, with its
\* request, changes isLoadingTree.
C27_LoadingFlagsFollowTheirRequests ==
    [][ explorer.mounted =>
            /\ explorer'.isLoadingContents = (InFlight(explorer') # {})
            /\ explorer'.isLoadingTree # explorer.isLoadingTree =>
                   explorer'.last.op \in {"loadAllFolders", "getAllFolders"}
      ]_vars

----------------------------------------------------------------------------
(* C28 *)

\* the columns of a file row but updatedAt
FileColumns == {"id", "name", "folderId", "size", "extension", "path", "createdAt"}

\* C28: updateFile(id, partial) changes only the fields present in partial
\* (and updatedAt), so that a call supplying only name leaves size,
\* extension, folderId and path as stored; a call on an id that does not
\* exist changes nothing and returns null.
C28_UpdateFileChangesOnlyTheSuppliedFields ==
    fcall.op = "updateFile" =>
        LET before == FileRepository_findById(fcall.before, fcall.id)
            after == FileRepository_findById(fileTable, fcall.id)
        IN  /\ before = None =>
                   /\ fileTable = fcall.before
                   /\ fcall.out = Return(None)
            /\ before # None =>
                   /\ after # None
                   /\ \A f \in FileColumns \ DOMAIN fcall.file :
                          after[1][f] = before[1][f]
                   /\ \A i \in 1..Len(fileTable) :
                          fileTable[i].id # fcall.id =>
                              fileTable[i] = fcall.before[i]

----------------------------------------------------------------------------
(* C29 *)

\* the ids of the list are unique
UniqueIds(fs) == \A i, j \in 1..Len(fs) : fs[i].id = fs[j].id => i = j

\* the ids that have the id above them, through any number of parents
RECURSIVE Below(_, _, _)
Below(fs, ids, n) ==
    IF n = 0 THEN ids
    ELSE Below(fs, ids \cup { fs[i].id : i \in { k \in 1..Len(fs) :
                                 /\ fs[k].parentId # None
                                 /\ fs[k].parentId[1] \in ids } }, n - 1)

\* every parentId is null or an id of the list, and no folder is below itself
ProperForest(fs) ==
    /\ UniqueIds(fs)
    /\ \A i \in 1..Len(fs) :
           /\ fs[i].parentId # None =>
                  \E j \in 1..Len(fs) : fs[j].id = fs[i].parentId[1]
           /\ fs[i].id \notin
                  Below(fs, { fs[k].id : k \in { m \in 1..Len(fs) :
                                fs[m].parentId = Some(fs[i].id) } }, Len(fs))

RECURSIVE SameForest(_, _, _)
\* the backend nodes and the frontend keys name the same folders in the
\* same order, with the same flag and the same forests below them
SameForest(nodes, keys, tree) ==
    /\ Len(nodes) = Len(keys)
    /\ \A i \in 1..Len(nodes) :
           /\ toString(nodes[i].id) = keys[i]
           /\ nodes[i].hasChildren = tree.nodes[keys[i]].hasSubfolders
           /\ SameForest(nodes[i].children, tree.nodes[keys[i]].children, tree)

RECURSIVE Preorder(_)
\* the ids of a backend forest, each node before its children
Preorder(forest) ==
    IF forest = <<>> THEN <<>>
    ELSE <<forest[1].id>> \o Preorder(forest[1].children)
             \o Preorder(Tail(forest))

\* the list holds each of its values once
Distinct(list) == \A i, j \in 1..Len(list) : list[i] = list[j] => i = j

RECURSIVE Concat(_, _)
\* the children lists of the keys, one after the other
Concat(tree, keys) ==
    IF keys = {} THEN <<>>
    ELSE LET key == CHOOSE k \in keys : TRUE
         IN  tree.nodes[key].children \o Concat(tree, keys \ {key})

\* C29: on a list with unique ids whose parentIds are null or ids of the
\* list and whose parent relation is acyclic, getFolderTree and the
\* frontend buildFolderTree give the same roots in the same order, the same
\* children in the same order under every node, every folder exactly once,
\* and hasChildren equal to hasSubfolders on every node.
C29_BackendAndFrontendBuildTheSameForest ==
    (unit.op = "buildFolderTree" /\ ProperForest(unit.folders)) =>
        LET placed == unit.frontend.rootFolders
                          \o Concat(unit.frontend, DOMAIN unit.frontend.nodes)
        IN  /\ SameForest(unit.backend, unit.frontend.rootFolders, unit.frontend)
            /\ Len(Preorder(unit.backend)) = Len(unit.folders)
            /\ Distinct(Preorder(unit.backend))
            /\ Range(Preorder(unit.backend))
                   = { unit.folders[i].id : i \in 1..Len(unit.folders) }
            /\ Len(placed) = Len(unit.folders)
            /\ Distinct(placed)
            /\ Range(placed)
                   = { toString(unit.folders[i].id) : i \in 1..Len(unit.folders) }

\* a child is listed before its parent and has a child of its own
C29_Witness ==
    /\ unit.op = "buildFolderTree"
    /\ ProperForest(unit.folders)
    /\ Len(unit.folders) = 3
    /\ unit.folders[1].parentId = Some(unit.folders[2].id)
    /\ unit.folders[3].parentId = Some(unit.folders[1].id)
    /\ Len(unit.backend) = 1
    /\ Len(unit.backend[1].children) = 1
    /\ Len(unit.backend[1].children[1].children) = 1
    /\ unit.frontend.rootFolders = <<toString(unit.folders[2].id)>>

----------------------------------------------------------------------------
(* C30 *)

\* C30: on every list with unique ids, also with a folder that is its own
\* parent, with a cycle of parents or with a parentId that names no folder
\* of the list, getFolderTree terminates, after at most one call of
\* buildFolderTree for null and one for each folder, and no folder appears
\* twice in the forest it returns.
C30_GetFolderTreeTerminatesWithoutDuplicates ==
    (unit.op = "getFolderTree" /\ UniqueIds(unit.folders)) =>
        /\ unit.calls <= Len(unit.folders) + 1
        /\ Len(unit.stack) <= Len(unit.folders) + 1
        /\ Distinct(unit.mapped)
        /\ Range(unit.mapped)
               \subseteq { unit.folders[i].id : i \in 1..Len(unit.folders) }
        /\ unit.done =>
               /\ unit.stack = <<>>
               /\ unit.mapped = Preorder(buildFolderTree(unit.folders, None))

\* the call has returned a forest for a list with a folder that is its own
\* parent, a folder whose parent is not in the list, and a root with a child
C30_Witness ==
    /\ unit.op = "getFolderTree"
    /\ unit.done
    /\ Len(unit.folders) = 3
    /\ \E i \in 1..3 : unit.folders[i].parentId = Some(unit.folders[i].id)
    /\ \E i \in 1..3 : unit.folders[i].parentId = Some(4)
    /\ Len(unit.mapped) = 1

====
